---------------------------- MODULE Spec2Model ----------------------------
(***************************************************************************)
(* Language classification and lightweight diagnostics of the Monaco       *)
(* Prettier editor plugin: LanguageDetector.ts and ValidationManager.ts.   *)
(*                                                                         *)
(* Texts are sequences of one-character strings.  The calls that leave     *)
(* the repository (RegExp.prototype.test on the signature patterns,        *)
(* JSON.parse, js-yaml) are not re-implemented: what they answer for a     *)
(* text is part of the input, chosen from all the answers the library can  *)
(* give.                                                                   *)
(***************************************************************************)
EXTENDS Integers, Sequences, FiniteSets, TLC

VARIABLES
    pc,      \* "idle": no call in progress; "returned": the call of fn has returned
    fn,      \* the function that was called
    args,    \* its arguments
    ret,     \* the value it returned
    trace,   \* what the call did on the way: calls made, patterns tested, locals
    settings,                     \* the plugin settings the passes read
    editor,                       \* the Monaco editor: language, model, text, markers, widgets
    inlineErrorDecorations,       \* ValidationManager's widget ids of the editor
    treeSitterInlineDecorations,  \* TreeSitterManager's widget ids of the editor
    treeSitter,                   \* TreeSitterManager's static fields
    listeners,                    \* live onDidChangeMarkers listeners of the passes
    tasks,                        \* the validation passes parked at an await
    now,                          \* Date.now()
    passes,                       \* validation passes started so far
    pass,                         \* the validation pass that ended last
    view                          \* the MonacoPrettierView of the file: its fields and its calls in progress

editorVars ==
    <<settings, editor, inlineErrorDecorations, treeSitterInlineDecorations,
      treeSitter, listeners, tasks, now, passes, pass, view>>

vars == <<pc, fn, args, ret, trace, editorVars>>

-----------------------------------------------------------------------------
(* Bounds of the input families *)

\* longest extension hint enumerated over HintAlphabet
MaxHintLen == 2
\* longest whitespace skeleton of a text handed to the classifier
MaxTextLen == 2
\* most signature patterns that occur in one classified text
MaxMatched == 2
\* most pieces a text handed to a validator is made of
MaxPieces == 3
\* most content changes of one editor
MaxPasses == 2
\* latest instant Date.now() reaches
MaxClock == 1
\* most calls of formatDocument on one view
MaxFormats == 2

-----------------------------------------------------------------------------
(* JavaScript values and strings *)

\* a value of type string
Str(s) == [type |-> "string", value |-> s]
\* the value undefined: an argument that was not supplied, a property that is missing
Undefined == [type |-> "undefined", value |-> ""]
\* a function object, e.g. Object.prototype.constructor
Fn(name) == [type |-> "function", value |-> name]
\* an object other than a function
Obj(name) == [type |-> "object", value |-> name]

\* ToBoolean for the values above: undefined and "" are falsy, objects are truthy
Truthy(v) ==
    CASE v.type = "undefined" -> FALSE
      [] v.type = "string"    -> v.value # ""
      [] OTHER                -> TRUE

RECURSIVE Join(_)
\* the string spelled by a sequence of characters
Join(chars) == IF chars = <<>> THEN "" ELSE Head(chars) \o Join(Tail(chars))

UpperCaseLetters ==
    <<"A", "B", "C", "D", "E", "F", "G", "H", "I", "J", "K", "L", "M",
      "N", "O", "P", "Q", "R", "S", "T", "U", "V", "W", "X", "Y", "Z">>
LowerCaseLetters ==
    <<"a", "b", "c", "d", "e", "f", "g", "h", "i", "j", "k", "l", "m",
      "n", "o", "p", "q", "r", "s", "t", "u", "v", "w", "x", "y", "z">>

\* String.prototype.toLowerCase on one character
LowerChar(c) ==
    IF \E k \in DOMAIN UpperCaseLetters : UpperCaseLetters[k] = c
    THEN LowerCaseLetters[CHOOSE k \in DOMAIN UpperCaseLetters : UpperCaseLetters[k] = c]
    ELSE c

\* String.prototype.toLowerCase
toLowerCase(chars) == [k \in DOMAIN chars |-> LowerChar(chars[k])]

\* the white space String.prototype.trim removes, among the characters used here
WhiteSpace == {" ", "\n", "\t", "\r"}

RECURSIVE trimStart(_)
trimStart(chars) ==
    IF chars # <<>> /\ Head(chars) \in WhiteSpace THEN trimStart(Tail(chars)) ELSE chars

RECURSIVE trimEnd(_)
trimEnd(chars) ==
    IF chars # <<>> /\ chars[Len(chars)] \in WhiteSpace
    THEN trimEnd(SubSeq(chars, 1, Len(chars) - 1))
    ELSE chars

\* String.prototype.trim
trim(chars) == trimEnd(trimStart(chars))

\* all sequences over alphabet of length at most n
SeqsUpTo(alphabet, n) == UNION {[1..k -> alphabet] : k \in 0..n}

-----------------------------------------------------------------------------
(* LanguageDetector: the signature table *)

\* LanguageDetector.patterns: the signatures in declaration order.  A pattern is
\* kept as its source text (the backquote is spelled \x60).
patterns ==
  <<
    [name |-> "TypeScript", monacoLanguage |-> "typescript", weight |-> 3,
     patterns |-> <<
         "/\\b(interface|type|namespace|enum)\\s+\\w+/",
         "/:\\s*(string|number|boolean|any|void|never)\\b/",
         "/<\\w+>/",
         "/\\b(public|private|protected|readonly)\\s+\\w+/",
         "/\\bimport\\s+\\{[^}]+\\}\\s+from\\s+['\"][^'\"]+['\"]/",
         "/\\bexport\\s+(interface|type|class|function|const|let)/" >>],
    [name |-> "TSX", monacoLanguage |-> "typescript", weight |-> 3,
     patterns |-> <<
         "/<\\w+[^>]*>/",
         "/\\binterface\\s+\\w+Props/",
         "/React\\.(FC|Component|useState|useEffect)/",
         "/\\bconst\\s+\\w+\\s*:\\s*React\\./" >>],
    [name |-> "JavaScript", monacoLanguage |-> "javascript", weight |-> 2,
     patterns |-> <<
         "/\\b(const|let|var)\\s+\\w+\\s*=/",
         "/\\bfunction\\s+\\w+\\s*\\(/",
         "/=>\\s*\\{/",
         "/\\b(async|await)\\b/",
         "/\\brequire\\s*\\(['\"]/",
         "/\\bmodule\\.exports\\s*=/",
         "/\\bconsole\\.(log|error|warn)/",
         "/\\bnew\\s+(Promise|Array|Object)/" >>],
    [name |-> "JSX", monacoLanguage |-> "javascript", weight |-> 2,
     patterns |-> <<
         "/<\\w+[^>]*>/",
         "/\\breturn\\s*\\(/",
         "/\\buseState\\(/",
         "/\\buseEffect\\(/",
         "/\\bprops\\.\\w+/" >>],
    [name |-> "Python", monacoLanguage |-> "python", weight |-> 3,
     patterns |-> <<
         "/\\bdef\\s+\\w+\\s*\\(/",
         "/\\bclass\\s+\\w+(\\([\\w,\\s]*\\))?:/",
         "/\\bimport\\s+\\w+/",
         "/\\bfrom\\s+\\w+\\s+import\\b/",
         "/\\b(print|len|range|str|int)\\s*\\(/",
         "/\\b(if|elif|else|for|while|try|except|finally|with|as)\\b:/",
         "/\\bself\\.\\w+/",
         "/^#!.*python/m" >>],
    [name |-> "Java", monacoLanguage |-> "java", weight |-> 3,
     patterns |-> <<
         "/\\bpublic\\s+(class|interface|enum)\\s+\\w+/",
         "/\\bprivate\\s+(static\\s+)?(final\\s+)?[\\w<>]+\\s+\\w+/",
         "/\\bSystem\\.(out|err)\\.print/",
         "/\\bpublic\\s+static\\s+void\\s+main\\s*\\(/",
         "/\\b(extends|implements)\\s+\\w+/",
         "/\\bnew\\s+\\w+<[^>]+>\\(/",
         "/@\\w+(\\([^)]*\\))?/" >>],
    [name |-> "C#", monacoLanguage |-> "csharp", weight |-> 3,
     patterns |-> <<
         "/\\bnamespace\\s+\\w+/",
         "/\\busing\\s+\\w+(\\.\\w+)*;/",
         "/\\b(public|private|protected|internal)\\s+(class|struct|interface)/",
         "/\\b(var|string|int|bool|decimal|double|float)\\s+\\w+\\s*=/",
         "/\\bConsole\\.Write/",
         "/\\basync\\s+Task/",
         "/@\"\\w+\"/" >>],
    [name |-> "C++", monacoLanguage |-> "cpp", weight |-> 3,
     patterns |-> <<
         "/#include\\s*<[\\w.]+>/",
         "/\\bstd::(cout|cin|endl|vector|string|map)/",
         "/\\btemplate\\s*<[^>]+>/",
         "/\\b(class|struct)\\s+\\w+\\s*{/",
         "/\\bnamespace\\s+\\w+\\s*{/",
         "/::operator/",
         "/\\bconst\\s+\\w+\\s*\\*\\s*const/" >>],
    [name |-> "C", monacoLanguage |-> "c", weight |-> 2,
     patterns |-> <<
         "/#include\\s*[\"<][\\w./]+[\">]/",
         "/\\bprintf\\s*\\(/",
         "/\\bscanf\\s*\\(/",
         "/\\bmalloc\\s*\\(/",
         "/\\bfree\\s*\\(/",
         "/\\bstruct\\s+\\w+\\s*{/",
         "/\\btypedef\\s+(struct|union|enum)/" >>],
    [name |-> "Go", monacoLanguage |-> "go", weight |-> 3,
     patterns |-> <<
         "/\\bpackage\\s+\\w+/",
         "/\\bfunc\\s+\\w+\\s*\\([^)]*\\)\\s*(\\([^)]*\\))?\\s*{/",
         "/\\bimport\\s+\\(/",
         "/:=\\s*/",
         "/\\bmake\\s*\\(/",
         "/\\bgo\\s+\\w+\\(/",
         "/\\bdefer\\s+/",
         "/\\bchan\\s+\\w+/" >>],
    [name |-> "Rust", monacoLanguage |-> "rust", weight |-> 3,
     patterns |-> <<
         "/\\bfn\\s+\\w+\\s*\\([^)]*\\)\\s*->\\s*\\w+/",
         "/\\blet\\s+mut\\s+\\w+/",
         "/\\b(pub\\s+)?(struct|enum|trait|impl)\\s+\\w+/",
         "/\\bmatch\\s+\\w+\\s*{/",
         "/\\buse\\s+\\w+(::\\w+)*;/",
         "/&(mut\\s+)?\\w+/",
         "/\\b(Some|None|Ok|Err)\\(/" >>],
    [name |-> "Ruby", monacoLanguage |-> "ruby", weight |-> 2,
     patterns |-> <<
         "/\\bdef\\s+\\w+(\\([^)]*\\))?/",
         "/\\bclass\\s+\\w+(\\s*<\\s*\\w+)?/",
         "/\\bmodule\\s+\\w+/",
         "/\\bend\\b/",
         "/@\\w+/",
         "/\\b(puts|print|require|include)\\b/",
         "/:\\w+\\s*=>/" >>],
    [name |-> "PHP", monacoLanguage |-> "php", weight |-> 3,
     patterns |-> <<
         "/<\\?php/",
         "/\\$\\w+\\s*=/",
         "/\\bfunction\\s+\\w+\\s*\\(/",
         "/\\becho\\s+/",
         "/\\b(public|private|protected)\\s+function/",
         "/->\\w+/",
         "/\\bnamespace\\s+\\w+(\\\\w+)*/" >>],
    [name |-> "Swift", monacoLanguage |-> "swift", weight |-> 2,
     patterns |-> <<
         "/\\bfunc\\s+\\w+\\s*\\([^)]*\\)\\s*->\\s*\\w+/",
         "/\\b(var|let)\\s+\\w+:\\s*\\w+/",
         "/\\bclass\\s+\\w+:\\s*\\w+/",
         "/\\bextension\\s+\\w+/",
         "/\\bguard\\s+let\\s+/",
         "/\\b(import\\s+UIKit|import\\s+Foundation)/" >>],
    [name |-> "Kotlin", monacoLanguage |-> "kotlin", weight |-> 2,
     patterns |-> <<
         "/\\bfun\\s+\\w+\\s*\\(/",
         "/\\b(val|var)\\s+\\w+:\\s*\\w+/",
         "/\\bdata\\s+class\\s+\\w+/",
         "/\\bwhen\\s*\\(\\w+\\)\\s*{/",
         "/\\?.let\\s*{/",
         "/\\bcompanion\\s+object\\s*{/" >>],
    [name |-> "Scala", monacoLanguage |-> "scala", weight |-> 2,
     patterns |-> <<
         "/\\bdef\\s+\\w+\\s*\\([^)]*\\):\\s*\\w+/",
         "/\\b(val|var)\\s+\\w+:\\s*\\w+/",
         "/\\bcase\\s+class\\s+\\w+/",
         "/\\bobject\\s+\\w+/",
         "/\\btrait\\s+\\w+/",
         "/_\\.\\w+/" >>],
    [name |-> "Shell", monacoLanguage |-> "shell", weight |-> 2,
     patterns |-> <<
         "/^#!\\/bin\\/(bash|sh|zsh)/m",
         "/\\b(echo|export|source)\\s+/",
         "/\\$\\{?\\w+\\}?/",
         "/\\bif\\s+\\[\\s+/",
         "/\\bfor\\s+\\w+\\s+in\\s+/",
         "/\\|\\s*grep\\s+/",
         "/\\||\\||&&/" >>],
    [name |-> "PowerShell", monacoLanguage |-> "powershell", weight |-> 2,
     patterns |-> <<
         "/\\$\\w+\\s*=/",
         "/\\b(Get|Set|New|Remove)-\\w+/",
         "/\\bWrite-(Host|Output|Error)/",
         "/\\bparam\\s*\\(/",
         "/\\[Parameter\\(/",
         "/-\\w+\\s+/" >>],
    [name |-> "SQL", monacoLanguage |-> "sql", weight |-> 3,
     patterns |-> <<
         "/\\bSELECT\\s+.+\\bFROM\\b/i",
         "/\\bINSERT\\s+INTO\\b/i",
         "/\\bUPDATE\\s+\\w+\\s+SET\\b/i",
         "/\\bDELETE\\s+FROM\\b/i",
         "/\\bCREATE\\s+(TABLE|INDEX|VIEW)\\b/i",
         "/\\bWHERE\\s+\\w+\\s*=\\s*/i",
         "/\\bJOIN\\s+\\w+\\s+ON\\b/i" >>],
    [name |-> "HTML", monacoLanguage |-> "html", weight |-> 2,
     patterns |-> <<
         "/<!DOCTYPE\\s+html>/i",
         "/<html[^>]*>/",
         "/<head[^>]*>/",
         "/<body[^>]*>/",
         "/<(div|span|p|a|img|input|button)[^>]*>/",
         "/<\\/\\w+>/" >>],
    [name |-> "CSS", monacoLanguage |-> "css", weight |-> 2,
     patterns |-> <<
         "/[.#]\\w+\\s*{/",
         "/\\w+\\s*:\\s*[^;]+;/",
         "/@media\\s+/",
         "/@import\\s+/",
         "/:(hover|active|focus|before|after)\\s*{/",
         "/rgba?\\([^)]+\\)/" >>],
    [name |-> "SCSS", monacoLanguage |-> "scss", weight |-> 3,
     patterns |-> <<
         "/\\$\\w+\\s*:/",
         "/@mixin\\s+\\w+/",
         "/@include\\s+\\w+/",
         "/@extend\\s+/",
         "/&:\\w+/" >>],
    [name |-> "JSON", monacoLanguage |-> "json", weight |-> 2,
     patterns |-> <<
         "/^\\s*\\{/",
         "/^\\s*\\[/",
         "/\"[\\w-]+\":\\s*(\"[^\"]*\"|\\d+|true|false|null|\\{|\\[)/",
         "/,\\s*$/m" >>],
    [name |-> "YAML", monacoLanguage |-> "yaml", weight |-> 2,
     patterns |-> <<
         "/^\\w+:\\s*$/m",
         "/^\\s+-\\s+\\w+/m",
         "/^---$/m",
         "/^\\s+\\w+:\\s+[^{[]/" >>],
    [name |-> "XML", monacoLanguage |-> "xml", weight |-> 2,
     patterns |-> <<
         "/<\\?xml\\s+version/",
         "/<\\w+:[^>]+>/",
         "/<!\\[CDATA\\[/" >>],
    [name |-> "Markdown", monacoLanguage |-> "markdown", weight |-> 2,
     patterns |-> <<
         "/^#{1,6}\\s+/m",
         "/\\[.+\\]\\(.+\\)/",
         "/^\\x60\\x60\\x60\\w*/m",
         "/^\\*\\s+/m",
         "/^>\\s+/m",
         "/\\*\\*.+\\*\\*/" >>],
    [name |-> "R", monacoLanguage |-> "r", weight |-> 2,
     patterns |-> <<
         "/<-\\s*/",
         "/\\blibrary\\s*\\(/",
         "/\\bfunction\\s*\\([^)]*\\)\\s*{/",
         "/\\b(data\\.frame|matrix|vector)\\s*\\(/",
         "/\\$\\w+/" >>],
    [name |-> "Lua", monacoLanguage |-> "lua", weight |-> 2,
     patterns |-> <<
         "/\\bfunction\\s+\\w+\\s*\\(/",
         "/\\blocal\\s+\\w+\\s*=/",
         "/\\bend\\b/",
         "/\\bthen\\b/",
         "/--\\s+/" >>],
    [name |-> "Dart", monacoLanguage |-> "dart", weight |-> 2,
     patterns |-> <<
         "/\\bvoid\\s+main\\s*\\(/",
         "/\\bclass\\s+\\w+\\s+(extends|implements)/",
         "/\\bfinal\\s+\\w+\\s+\\w+\\s*=/",
         "/\\bwidget\\s+build\\s*\\(/i",
         "/@override/" >>]
  >>

\* the unknown sentinel
Plaintext == "plaintext"

SignatureIds == DOMAIN patterns

\* the canonical ids of the signatures
CanonicalIds == {patterns[i].monacoLanguage : i \in SignatureIds}

-----------------------------------------------------------------------------
(* Texts handed to the classifier.                                         *)
(* code.chars is the white-space skeleton of the text ("x" stands for any  *)
(* character that is not white space); code.hits[i] = k says that the      *)
(* first k patterns of signature i occur in the text and its other         *)
(* patterns do not; code.times is how often each of those occurs.          *)

SkeletonAlphabet == {" ", "\n", "\t", "x"}
Skeletons == SeqsUpTo(SkeletonAlphabet, MaxTextLen)

NoHits == [i \in SignatureIds |-> 0]

\* the hit vector of a nondecreasing list of signatures, one entry per occurring pattern
HitsOf(sigs) == [i \in SignatureIds |-> Cardinality({k \in DOMAIN sigs : sigs[k] = i})]

HitVectors ==
    {HitsOf(sigs) : sigs \in
        {s \in SeqsUpTo(SignatureIds, MaxMatched) :
            /\ \A k \in 1..(Len(s) - 1) : s[k] <= s[k + 1]
            /\ \A i \in SignatureIds :
                 Cardinality({k \in DOMAIN s : s[k] = i}) <= Len(patterns[i].patterns)}}

\* how often an occurring pattern may occur
Times == {1, 2}

\* no signature pattern matches a text without a character that is not white space
Codes ==
    {[chars |-> s, hits |-> NoHits, times |-> 1] : s \in Skeletons}
    \cup {[chars |-> <<"x">>, hits |-> h, times |-> t] : h \in HitVectors \ {NoHits}, t \in Times}

\* the number of matches of pattern j of signature i in the text
Occurrences(i, j, code) == IF j <= code.hits[i] THEN code.times ELSE 0

\* pattern.test(code), for pattern j of signature i (no pattern carries the g flag)
RegExpTest(i, j, code) == Occurrences(i, j, code) > 0

-----------------------------------------------------------------------------
(* LanguageDetector.detectLanguage *)

\* mutant: the white-space test dropped, only the empty text counts as blank
IsBlank_NoTrim(code) == code.chars = <<>>

\* !code || code.trim().length === 0
IsBlank(code) == code.chars = <<>> \/ Len(trim(code.chars)) = 0

RECURSIVE PatternScore_PerMatch(_, _, _)
\* mutant: the weight added for every match of a pattern, not once per pattern
PatternScore_PerMatch(i, j, code) ==
    IF j = 0 THEN 0
    ELSE PatternScore_PerMatch(i, j - 1, code) + patterns[i].weight * Occurrences(i, j, code)

RECURSIVE PatternScore(_, _, _)
\* the inner loop: score after testing patterns 1..j of signature i
PatternScore(i, j, code) ==
    IF j = 0 THEN 0
    ELSE PatternScore(i, j - 1, code)
         + (IF RegExpTest(i, j, code) THEN patterns[i].weight ELSE 0)

\* the score of one signature: its weight once for each of its patterns that matches
SignatureScore(i, code) == PatternScore(i, Len(patterns[i].patterns), code)

\* Map.prototype.get on a Map kept as its entries in insertion order; || 0
MapGetOrZero(entries, key) ==
    IF \E k \in DOMAIN entries : entries[k].key = key
    THEN entries[CHOOSE k \in DOMAIN entries : entries[k].key = key].value
    ELSE 0

\* Map.prototype.set: a present key keeps its place, a new key goes last
MapSet(entries, key, value) ==
    IF \E k \in DOMAIN entries : entries[k].key = key
    THEN [k \in DOMAIN entries |->
            IF entries[k].key = key THEN [key |-> key, value |-> value] ELSE entries[k]]
    ELSE Append(entries, [key |-> key, value |-> value])

RECURSIVE ScoresAfter(_, _)
\* the scores Map after the outer loop has handled signatures 1..n
ScoresAfter(n, code) ==
    IF n = 0 THEN <<>>
    ELSE LET scores == ScoresAfter(n - 1, code)
             score == SignatureScore(n, code)
             language == patterns[n].monacoLanguage
         IN  IF score > 0
             THEN MapSet(scores, language, MapGetOrZero(scores, language) + score)
             ELSE scores

RECURSIVE HighestAfter_LastWins(_, _)
\* mutant: a later entry with the same score replaces the best one
HighestAfter_LastWins(entries, n) ==
    IF n = 0 THEN [maxScore |-> 0, detectedLanguage |-> Plaintext]
    ELSE LET best == HighestAfter_LastWins(entries, n - 1)
         IN  IF entries[n].value >= best.maxScore
             THEN [maxScore |-> entries[n].value, detectedLanguage |-> entries[n].key]
             ELSE best

RECURSIVE HighestAfter(_, _)
\* maxScore and detectedLanguage after the first n entries of the Map were visited
HighestAfter(entries, n) ==
    IF n = 0 THEN [maxScore |-> 0, detectedLanguage |-> Plaintext]
    ELSE LET best == HighestAfter(entries, n - 1)
         IN  IF entries[n].value > best.maxScore
             THEN [maxScore |-> entries[n].value, detectedLanguage |-> entries[n].key]
             ELSE best

\* the minimum confidence threshold
MinConfidence == 2

RECURSIVE PatternsUpTo(_)
PatternsUpTo(n) == IF n = 0 THEN 0 ELSE PatternsUpTo(n - 1) + Len(patterns[n].patterns)

\* the number of patterns in the table: a scan tests each of them once
PatternCount == PatternsUpTo(Len(patterns))

\* mutant: the floor compared with <= instead of <
detectLanguageRun_FloorInclusive(code) ==
    IF IsBlank(code)
    THEN [value |-> Plaintext, patternTests |-> 0, scores |-> <<>>, maxScore |-> 0]
    ELSE LET scores == ScoresAfter(Len(patterns), code)
             best == HighestAfter(scores, Len(scores))
         IN  [value |-> IF best.maxScore <= MinConfidence THEN Plaintext
                        ELSE best.detectedLanguage,
              patternTests |-> PatternCount,
              scores |-> scores,
              maxScore |-> best.maxScore]

\* one call of detectLanguage: the value returned, the number of pattern.test
\* calls made, and the locals scores and maxScore when the call returned
detectLanguageRun(code) ==
    IF IsBlank(code)
    THEN [value |-> Plaintext, patternTests |-> 0, scores |-> <<>>, maxScore |-> 0]
    ELSE LET scores == ScoresAfter(Len(patterns), code)
             best == HighestAfter(scores, Len(scores))
         IN  [value |-> IF best.maxScore < MinConfidence THEN Plaintext
                        ELSE best.detectedLanguage,
              patternTests |-> PatternCount,
              scores |-> scores,
              maxScore |-> best.maxScore]

detectLanguage(code) == detectLanguageRun(code).value

-----------------------------------------------------------------------------
(* LanguageDetector.getLanguageFromExtension *)

extensionMap ==
  "js" :> "javascript" @@
  "jsx" :> "javascript" @@
  "ts" :> "typescript" @@
  "tsx" :> "typescript" @@
  "json" :> "json" @@
  "py" :> "python" @@
  "pyw" :> "python" @@
  "python" :> "python" @@
  "java" :> "java" @@
  "c" :> "c" @@
  "cpp" :> "cpp" @@
  "cc" :> "cpp" @@
  "cxx" :> "cpp" @@
  "h" :> "c" @@
  "hpp" :> "cpp" @@
  "cs" :> "csharp" @@
  "php" :> "php" @@
  "rb" :> "ruby" @@
  "go" :> "go" @@
  "rs" :> "rust" @@
  "swift" :> "swift" @@
  "kt" :> "kotlin" @@
  "kts" :> "kotlin" @@
  "scala" :> "scala" @@
  "sh" :> "shell" @@
  "bash" :> "shell" @@
  "zsh" :> "shell" @@
  "ps1" :> "powershell" @@
  "sql" :> "sql" @@
  "r" :> "r" @@
  "m" :> "objective-c" @@
  "html" :> "html" @@
  "htm" :> "html" @@
  "css" :> "css" @@
  "scss" :> "scss" @@
  "sass" :> "scss" @@
  "less" :> "less" @@
  "xml" :> "xml" @@
  "yaml" :> "yaml" @@
  "yml" :> "yaml" @@
  "toml" :> "ini" @@
  "ini" :> "ini" @@
  "conf" :> "ini" @@
  "cfg" :> "ini" @@
  "md" :> "markdown" @@
  "markdown" :> "markdown" @@
  "lua" :> "lua" @@
  "dart" :> "dart" @@
  "pl" :> "perl" @@
  "ex" :> "elixir" @@
  "exs" :> "elixir" @@
  "erl" :> "erlang" @@
  "hrl" :> "erlang" @@
  "clj" :> "clojure" @@
  "cljs" :> "clojure" @@
  "hs" :> "haskell" @@
  "ml" :> "fsharp" @@
  "fs" :> "fsharp" @@
  "vb" :> "vb"
KnownHints ==
  { <<"j", "s">>, <<"j", "s", "x">>, <<"t", "s">>, <<"t", "s", "x">>, <<"j", "s", "o", "n">>,
    <<"p", "y">>, <<"p", "y", "w">>, <<"p", "y", "t", "h", "o", "n">>, <<"j", "a", "v", "a">>,
    <<"c">>, <<"c", "p", "p">>, <<"c", "c">>, <<"c", "x", "x">>, <<"h">>, <<"h", "p", "p">>,
    <<"c", "s">>, <<"p", "h", "p">>, <<"r", "b">>, <<"g", "o">>, <<"r", "s">>, <<"s", "w", "i", "f", "t">>,
    <<"k", "t">>, <<"k", "t", "s">>, <<"s", "c", "a", "l", "a">>, <<"s", "h">>, <<"b", "a", "s", "h">>,
    <<"z", "s", "h">>, <<"p", "s", "1">>, <<"s", "q", "l">>, <<"r">>, <<"m">>, <<"h", "t", "m", "l">>,
    <<"h", "t", "m">>, <<"c", "s", "s">>, <<"s", "c", "s", "s">>, <<"s", "a", "s", "s">>,
    <<"l", "e", "s", "s">>, <<"x", "m", "l">>, <<"y", "a", "m", "l">>, <<"y", "m", "l">>,
    <<"t", "o", "m", "l">>, <<"i", "n", "i">>, <<"c", "o", "n", "f">>, <<"c", "f", "g">>,
    <<"m", "d">>, <<"m", "a", "r", "k", "d", "o", "w", "n">>, <<"l", "u", "a">>,
    <<"d", "a", "r", "t">>, <<"p", "l">>, <<"e", "x">>, <<"e", "x", "s">>, <<"e", "r", "l">>,
    <<"h", "r", "l">>, <<"c", "l", "j">>, <<"c", "l", "j", "s">>, <<"h", "s">>, <<"m", "l">>,
    <<"f", "s">>, <<"v", "b">>, <<"P", "Y">>, <<"P", "y">>, <<"J", "S">>, <<"J", "s", "o", "n">>,
    <<"Y", "M", "L">>, <<"C", "P", "P">>, <<"R", "s">>, <<"c", "o", "n", "s", "t", "r", "u", "c", "t", "o", "r">>,
    <<"C", "o", "n", "s", "t", "r", "u", "c", "t", "o", "r">>, <<"_", "_", "p", "r", "o", "t", "o", "_", "_">>,
    <<"t", "o", "S", "t", "r", "i", "n", "g">>, <<"v", "a", "l", "u", "e", "O", "f">>,
    <<"h", "a", "s", "O", "w", "n", "P", "r", "o", "p", "e", "r", "t", "y">>,
    <<"t", "x", "t">>, <<"t", "e", "x", "t">>, <<"p", "l", "a", "i", "n">>, <<".", "p", "y">>,
    <<"p", "y", " ">>, <<"u", "n", "k", "n", "o", "w", "n">> }

\* The properties an object literal inherits from Object.prototype.  The literal
\* extensionMap is an ordinary object, so extensionMap[key] finds these too.
ObjectPrototype ==
    "constructor" :> Fn("Object") @@
    "__proto__" :> Obj("Object.prototype") @@
    "toString" :> Fn("toString") @@
    "toLocaleString" :> Fn("toLocaleString") @@
    "valueOf" :> Fn("valueOf") @@
    "hasOwnProperty" :> Fn("hasOwnProperty") @@
    "isPrototypeOf" :> Fn("isPrototypeOf") @@
    "propertyIsEnumerable" :> Fn("propertyIsEnumerable")

\* extensionMap[key]: an own property, else an inherited one, else undefined
PropertyGet(key) ==
    IF key \in DOMAIN extensionMap THEN Str(extensionMap[key])
    ELSE IF key \in DOMAIN ObjectPrototype THEN ObjectPrototype[key]
    ELSE Undefined

\* extensionMap[extension.toLowerCase()]
LookupExtension(extension) == PropertyGet(Join(toLowerCase(extension)))

\* an optional text argument: not supplied, or a text
Absent == [supplied |-> FALSE]
Supplied(code) == [supplied |-> TRUE, code |-> code]

\* if (content): a supplied, non-empty string
ContentTruthy(content) == content.supplied /\ content.code.chars # <<>>

\* mutant: the content consulted before the table
getLanguageFromExtensionRun_ContentFirst(extension, content) ==
    LET language == LookupExtension(extension)
    IN  IF ContentTruthy(content)
        THEN LET run == detectLanguageRun(content.code)
             IN  [value |-> Str(run.value), detectCalls |-> 1,
                  patternTests |-> run.patternTests]
        ELSE IF Truthy(language)
        THEN [value |-> language, detectCalls |-> 0, patternTests |-> 0]
        ELSE [value |-> Str(Plaintext), detectCalls |-> 0, patternTests |-> 0]

\* one call of getLanguageFromExtension: the value returned and the calls of
\* detectLanguage it made
getLanguageFromExtensionRun(extension, content) ==
    LET language == LookupExtension(extension)
    IN  IF Truthy(language)
        THEN [value |-> language, detectCalls |-> 0, patternTests |-> 0]
        ELSE IF ContentTruthy(content)
        THEN LET run == detectLanguageRun(content.code)
             IN  [value |-> Str(run.value), detectCalls |-> 1,
                  patternTests |-> run.patternTests]
        ELSE [value |-> Str(Plaintext), detectCalls |-> 0, patternTests |-> 0]

getLanguageFromExtension(extension, content) ==
    getLanguageFromExtensionRun(extension, content).value

\* the extension hints: every short string over HintAlphabet, the keys of the
\* table in several spellings, and names that are not keys
HintAlphabet == {"p", "y", "P", "."}
Hints == SeqsUpTo(HintAlphabet, MaxHintLen) \cup KnownHints

\* the single-pattern hit vector of signature i
SingleHit(i) == [k \in SignatureIds |-> IF k = i THEN 1 ELSE 0]

\* the content arguments tried with each hint: none, every text without a
\* signature pattern, and for each signature a text its first pattern occurs in
Contents ==
    {Absent}
    \cup {Supplied([chars |-> s, hits |-> NoHits, times |-> 1]) : s \in Skeletons}
    \cup {Supplied([chars |-> <<"x">>, hits |-> SingleHit(i), times |-> 1]) : i \in SignatureIds}

-----------------------------------------------------------------------------
(* FenceEditContext.getLanguage: the language of a code fence *)

\* langKey === "text" || langKey === "plain"
GenericKeys == {<<"t", "e", "x", "t">>, <<"p", "l", "a", "i", "n">>}

\* one call of getLanguage; content is the text between the fence lines
getLanguageRun(langKey, autoDetectLanguage, content) ==
    IF /\ autoDetectLanguage
       /\ (langKey = <<>> \/ langKey \in GenericKeys)
       /\ Len(trim(content.chars)) > 0
    THEN LET run == detectLanguageRun(content)
         IN  [value |-> Str(run.value), detectCalls |-> 1, patternTests |-> run.patternTests]
    ELSE IF langKey # <<>>
    THEN getLanguageFromExtensionRun(langKey, Absent)
    ELSE [value |-> Str(Plaintext), detectCalls |-> 0, patternTests |-> 0]

\* the info strings of the fences tried: none, the generic ones, keys and other names
FenceKeys ==
    {<<>>, <<"p", "y">>, <<"P", "Y">>, <<"j", "s", "o", "n">>, <<"u", "n", "k", "n", "o", "w", "n">>,
     <<"c", "o", "n", "s", "t", "r", "u", "c", "t", "o", "r">>} \cup GenericKeys

-----------------------------------------------------------------------------
(* The classifier as a state machine: one call at a time *)

NoTrace == [detectCalls |-> 0, patternTests |-> 0, scores |-> <<>>, maxScore |-> 0]


-----------------------------------------------------------------------------
(* String primitives used by the validators.  Indexes are JavaScript's,    *)
(* counted from 0; -1 is "not found".                                      *)

\* \w of a regular expression, among the characters used here
WordChars ==
    {LowerCaseLetters[k] : k \in DOMAIN LowerCaseLetters}
    \cup {UpperCaseLetters[k] : k \in DOMAIN UpperCaseLetters}
    \cup {"0", "1", "2", "3", "4", "5", "6", "7", "8", "9", "_"}

\* whether sub occurs in chars at 0-based index at
OccursAt(chars, sub, at) ==
    /\ at >= 0
    /\ at + Len(sub) <= Len(chars)
    /\ \A k \in 1..Len(sub) : chars[at + k] = sub[k]

\* String.prototype.indexOf
indexOf(chars, sub) ==
    IF \E at \in 0..Len(chars) : OccursAt(chars, sub, at)
    THEN CHOOSE at \in 0..Len(chars) :
            /\ OccursAt(chars, sub, at)
            /\ \A before \in 0..(at - 1) : ~OccursAt(chars, sub, before)
    ELSE -1

\* String.prototype.lastIndexOf
lastIndexOf(chars, sub) ==
    IF \E at \in 0..Len(chars) : OccursAt(chars, sub, at)
    THEN CHOOSE at \in 0..Len(chars) :
            /\ OccursAt(chars, sub, at)
            /\ \A after \in (at + 1)..Len(chars) : ~OccursAt(chars, sub, after)
    ELSE -1

\* String.prototype.includes, startsWith, endsWith
includes(chars, sub) == indexOf(chars, sub) >= 0
startsWith(chars, sub) == OccursAt(chars, sub, 0)
endsWith(chars, sub) == OccursAt(chars, sub, Len(chars) - Len(sub))

\* String.prototype.substring(0, end): end is clamped to the length
substring0(chars, end) ==
    SubSeq(chars, 1, IF end > Len(chars) THEN Len(chars) ELSE end)

RECURSIVE SplitFrom(_, _, _)
\* the lines of chars from 1-based position k on, cur being the line begun
SplitFrom(chars, k, cur) ==
    IF k > Len(chars) THEN <<cur>>
    ELSE IF chars[k] = "\n" THEN <<cur>> \o SplitFrom(chars, k + 1, <<>>)
    ELSE SplitFrom(chars, k + 1, Append(cur, chars[k]))

\* String.prototype.split('\n'): always at least one line
split(chars) == SplitFrom(chars, 1, <<>>)

\* (line.match(/(?<!\\)q/g) || []).length: the quotes q not preceded by a backslash
UnescapedCount(line, q) ==
    Cardinality({k \in DOMAIN line : line[k] = q /\ (k = 1 \/ line[k - 1] # "\\")})

TripleDouble == <<"\"", "\"", "\"">>
TripleSingle == <<"'", "'", "'">>

RECURSIVE TripleCountFrom(_, _)
\* (line.match(/"""|'''/g) || []).length: matches are taken left to right and
\* do not overlap; at is the 0-based index the scan has reached
TripleCountFrom(line, at) ==
    IF at + 3 > Len(line) THEN 0
    ELSE IF OccursAt(line, TripleDouble, at) \/ OccursAt(line, TripleSingle, at)
    THEN 1 + TripleCountFrom(line, at + 3)
    ELSE TripleCountFrom(line, at + 1)

\* line.search(/\S/): the index of the first character that is not white space
searchNonSpace(line) ==
    IF \E k \in DOMAIN line : line[k] \notin WhiteSpace
    THEN (CHOOSE k \in DOMAIN line :
            /\ line[k] \notin WhiteSpace
            /\ \A b \in 1..(k - 1) : line[b] \in WhiteSpace) - 1
    ELSE -1

\* the number of characters c in line
CountChar(line, c) == Cardinality({k \in DOMAIN line : line[k] = c})

\* \b at 0-based index at: exactly one of the characters around it is a word character
WordBoundary(line, at) ==
    LET before == at >= 1 /\ line[at] \in WordChars
        after == at < Len(line) /\ line[at + 1] \in WordChars
    IN  before # after

ControlKeywords ==
    {<<"i", "f">>, <<"e", "l", "i", "f">>, <<"e", "l", "s", "e">>, <<"f", "o", "r">>,
     <<"w", "h", "i", "l", "e">>, <<"d", "e", "f">>, <<"c", "l", "a", "s", "s">>,
     <<"w", "i", "t", "h">>, <<"t", "r", "y">>, <<"e", "x", "c", "e", "p", "t">>,
     <<"f", "i", "n", "a", "l", "l", "y">>}

\* /^\s*(if|elif|else|for|while|def|class|with|try|except|finally)\b/.test(line)
controlStructuresTest(line) ==
    \E at \in 0..Len(line), kw \in ControlKeywords :
        /\ \A k \in 1..at : line[k] \in WhiteSpace
        /\ OccursAt(line, kw, at)
        /\ WordBoundary(line, at + Len(kw))

\* /\bdef\s+\w+\s*\([^)]*\)\s*[^:]/ matches line from d to e: d is where "def"
\* starts, n where the name starts, w the end of the name, p the "(", q the ")"
\* and e the last character, all 0-based
defWithoutColonMatch(line, d, e) ==
    LET last == Len(line) - 1
    IN  /\ WordBoundary(line, d)
        /\ OccursAt(line, <<"d", "e", "f">>, d)
        /\ \E n \in (d + 4)..last :
             /\ \A k \in (d + 3)..(n - 1) : line[k + 1] \in WhiteSpace
             /\ \E w \in (n + 1)..last :
                  /\ \A k \in n..(w - 1) : line[k + 1] \in WordChars
                  /\ \E p \in w..last :
                       /\ \A k \in w..(p - 1) : line[k + 1] \in WhiteSpace
                       /\ line[p + 1] = "("
                       /\ \E q \in (p + 1)..(e - 1) :
                            /\ \A k \in (p + 1)..(q - 1) : line[k + 1] # ")"
                            /\ line[q + 1] = ")"
                            /\ \A k \in (q + 1)..(e - 1) : line[k + 1] \in WhiteSpace
                            /\ line[e + 1] # ":"

\* the pattern matches somewhere in line
defWithoutColonTest(line) ==
    \E d \in 0..(Len(line) - 1), e \in 0..(Len(line) - 1) : defWithoutColonMatch(line, d, e)

\* mutant: the pattern hoisted out of the loop, one RegExp object for all lines
\* and calls
NewDefRegExp_Hoisted(previous) == previous

\* the literal /.../g in the loop body: every evaluation makes a new RegExp
\* object, whose lastIndex is 0, whatever became of the object made before
NewDefRegExp(previous) == [lastIndex |-> 0]

\* RegExp.prototype.test of a pattern with the g flag: the search starts at
\* lastIndex, takes the leftmost match and, the quantifiers being greedy, its
\* longest end; lastIndex becomes the end of the match, or 0 when there is none
defRegExpTest(line, regexp) ==
    LET last == Len(line) - 1
        starts == {d \in regexp.lastIndex..last :
                     \E e \in d..last : defWithoutColonMatch(line, d, e)}
        d0 == CHOOSE d \in starts : \A other \in starts : d <= other
        ends == {e \in d0..last : defWithoutColonMatch(line, d0, e)}
        e0 == CHOOSE e \in ends : \A other \in ends : e >= other
    IN  IF starts = {} THEN [found |-> FALSE, regexp |-> [lastIndex |-> 0]]
        ELSE [found |-> TRUE, regexp |-> [lastIndex |-> e0 + 1]]

-----------------------------------------------------------------------------
(* ValidationManager: the lightweight validators *)

\* a ValidationError
Finding(line, column, message, severity) ==
    [line |-> line, column |-> column, message |-> message, severity |-> severity]

\* What JSON.parse answers for a text: it accepts, or it throws a SyntaxError
\* whose message is head, or head followed by " at position <position>" and tail.
JsonAccepts == [ok |-> TRUE]
JsonThrows(head, hasPosition, position) ==
    [ok |-> FALSE, head |-> head, hasPosition |-> hasPosition, position |-> position]

\* mutant: no finding when the message carries no position
validateJSON_NoFallback(code, parse) ==
    IF parse.ok THEN <<>>
    ELSE IF parse.hasPosition
    THEN LET lines == split(substring0(code, parse.position))
         IN  <<Finding(Len(lines), Len(lines[Len(lines)]) + 1, parse.head, "error")>>
    ELSE <<>>

\* mutant: the column is the offset itself, not the offset within its line
validateJSON_ColumnIsOffset(code, parse) ==
    IF parse.ok THEN <<>>
    ELSE IF parse.hasPosition
    THEN LET lines == split(substring0(code, parse.position))
         IN  <<Finding(Len(lines), parse.position + 1, parse.head, "error")>>
    ELSE <<Finding(1, 1, parse.head, "error")>>

\* mutant: the line feeds of the whole text are counted
validateJSON_WholeText(code, parse) ==
    IF parse.ok THEN <<>>
    ELSE IF parse.hasPosition
    THEN LET lines == split(code)
         IN  <<Finding(Len(lines), Len(lines[Len(lines)]) + 1, parse.head, "error")>>
    ELSE <<Finding(1, 1, parse.head, "error")>>

\* validateJSON(code), JSON.parse(code) answering parse
validateJSON(code, parse) ==
    IF parse.ok THEN <<>>
    ELSE IF parse.hasPosition
    THEN LET lines == split(substring0(code, parse.position))
         IN  <<Finding(Len(lines), Len(lines[Len(lines)]) + 1, parse.head, "error")>>
    ELSE <<Finding(1, 1, parse.head, "error")>>

\* What the js-yaml delegation answers: import('js-yaml') is rejected with an
\* Error, or yaml.load accepts the text, or it throws a YAMLException, which
\* carries reason and message and may carry mark = {line, column}, both from 0.
YamlImportFails == [kind |-> "importRejected", hasMark |-> FALSE, line |-> 0, column |-> 0,
                    message |-> "Cannot find module 'js-yaml'"]
YamlAccepts == [kind |-> "accepted", hasMark |-> FALSE, line |-> 0, column |-> 0,
                message |-> ""]
YamlThrows(hasMark, line, column) ==
    [kind |-> "thrown", hasMark |-> hasMark, line |-> line, column |-> column,
     message |-> "bad indentation of a mapping entry"]

\* the outcome of a call: the value returned, or the error thrown out of it
Returns(value) == [threw |-> FALSE, value |-> value]
ThrowsOut(message) == [threw |-> TRUE, value |-> <<>>, message |-> message]

\* mutant: the mark of js-yaml taken as it is, from 0
validateYAML_MarkAsIs(code, answer) ==
    IF answer.kind = "accepted" THEN Returns(<<>>)
    ELSE LET line == IF answer.hasMark /\ answer.line # 0 THEN answer.line ELSE 1
             column == IF answer.hasMark /\ answer.column # 0 THEN answer.column ELSE 1
         IN  Returns(<<Finding(line, column, answer.message, "error")>>)

\* mutant: the import awaited outside the try block
validateYAML_ImportOutsideTry(code, answer) ==
    IF answer.kind = "importRejected" THEN ThrowsOut(answer.message)
    ELSE IF answer.kind = "accepted" THEN Returns(<<>>)
    ELSE LET line == IF answer.hasMark /\ answer.line # 0 THEN answer.line + 1 ELSE 1
             column == IF answer.hasMark /\ answer.column # 0 THEN answer.column + 1 ELSE 1
         IN  Returns(<<Finding(line, column, answer.message, "error")>>)

\* validateYAML(code), once its promise has settled; answer is what the import
\* and yaml.load did.  error.mark?.line is falsy when there is no mark and when
\* the line is 0.
validateYAML(code, answer) ==
    IF answer.kind = "accepted" THEN Returns(<<>>)
    ELSE LET line == IF answer.hasMark /\ answer.line # 0 THEN answer.line + 1 ELSE 1
             column == IF answer.hasMark /\ answer.column # 0 THEN answer.column + 1 ELSE 1
         IN  Returns(<<Finding(line, column, answer.message, "error")>>)

\* the unclosed-string check of one line: at most one finding, triple first
quoteFindings(line, lineNum) ==
    LET singleQuotes == UnescapedCount(line, "'")
        doubleQuotes == UnescapedCount(line, "\"")
        tripleQuotes == TripleCountFrom(line, 0)
    IN  IF tripleQuotes % 2 # 0
        THEN <<Finding(lineNum,
                       IF indexOf(line, TripleDouble) >= 0
                       THEN indexOf(line, TripleDouble) + 1
                       ELSE indexOf(line, TripleSingle) + 1,
                       "Unclosed triple-quoted string", "error")>>
        ELSE IF singleQuotes % 2 # 0
        THEN <<Finding(lineNum, lastIndexOf(line, <<"'">>) + 1,
                       "Unclosed string (single quote)", "error")>>
        ELSE IF doubleQuotes % 2 # 0
        THEN <<Finding(lineNum, lastIndexOf(line, <<"\"">>) + 1,
                       "Unclosed string (double quote)", "error")>>
        ELSE <<>>

\* mutant: only the brackets left open are reported
bracketFinding_OnlyUnclosed(line, lineNum, open, close, unclosed, unmatched) ==
    LET depth == CountChar(line, open) - CountChar(line, close)
    IN  IF depth > 0
        THEN <<Finding(lineNum, lastIndexOf(line, <<open>>) + 1, unclosed, "error")>>
        ELSE <<>>

\* the check of one kind of bracket on one line
bracketFinding(line, lineNum, open, close, unclosed, unmatched) ==
    LET depth == CountChar(line, open) - CountChar(line, close)
    IN  IF depth # 0
        THEN <<Finding(lineNum,
                       IF depth > 0 THEN lastIndexOf(line, <<open>>) + 1
                       ELSE lastIndexOf(line, <<close>>) + 1,
                       IF depth > 0 THEN unclosed ELSE unmatched, "error")>>
        ELSE <<>>

\* the three bracket checks of one line, in the order of the code
bracketFindings(line, lineNum) ==
    bracketFinding(line, lineNum, "(", ")", "Unclosed parenthesis",
                   "Unmatched closing parenthesis")
    \o bracketFinding(line, lineNum, "[", "]", "Unclosed bracket",
                      "Unmatched closing bracket")
    \o bracketFinding(line, lineNum, "{", "}", "Unclosed brace", "Unmatched closing brace")

\* mutant: the indentation heuristic reported as an error
indentFindings_AsError(line, lineNum) ==
    LET indent == searchNonSpace(line)
    IN  IF indent > 0 /\ indent % 4 # 0
        THEN <<Finding(lineNum, 1, "Indentation should be a multiple of 4 spaces", "error")>>
        ELSE <<>>

\* the indentation check of one line
indentFindings(line, lineNum) ==
    LET indent == searchNonSpace(line)
    IN  IF indent > 0 /\ indent % 4 # 0
        THEN <<Finding(lineNum, 1, "Indentation should be a multiple of 4 spaces", "warning")>>
        ELSE <<>>

\* mutant: the missing colon reported one past the end of the line
colonFindings_PastEnd(line, lineNum) ==
    IF controlStructuresTest(line) /\ ~endsWith(trim(line), <<":">>)
    THEN <<Finding(lineNum, Len(line) + 2, "Missing colon at end of statement", "error")>>
    ELSE <<>>

\* the missing-colon check of one line
colonFindings(line, lineNum) ==
    IF controlStructuresTest(line) /\ ~endsWith(trim(line), <<":">>)
    THEN <<Finding(lineNum, Len(line), "Missing colon at end of statement", "error")>>
    ELSE <<>>

\* the function-definition check of one line, matched being what the test of
\* the pattern answered
defFindings(line, lineNum, matched) ==
    IF matched /\ ~includes(line, <<"-", ">">>)
    THEN <<Finding(lineNum, indexOf(line, <<"d", "e", "f">>) + 1,
                   "Function definition missing colon", "error")>>
    ELSE <<>>

\* the body of the loop of validatePython for one line: the findings it pushes
\* and the RegExp object its literal made (previous: the one made before)
pythonLineFindings(line, lineNum, previous) ==
    IF trim(line) = <<>> \/ startsWith(trim(line), <<"#">>)
    THEN [errors |-> <<>>, regexp |-> previous]
    ELSE LET tested == defRegExpTest(line, NewDefRegExp(previous))
         IN  [errors |-> quoteFindings(line, lineNum)
                         \o bracketFindings(line, lineNum)
                         \o indentFindings(line, lineNum)
                         \o colonFindings(line, lineNum)
                         \o defFindings(line, lineNum, tested.found),
              regexp |-> tested.regexp]

RECURSIVE pythonFindingsUpTo(_, _, _)
\* errors after the loop has handled the first n lines, and the RegExp object
\* made last
pythonFindingsUpTo(lines, n, previous) ==
    IF n = 0 THEN [errors |-> <<>>, regexp |-> previous]
    ELSE LET before == pythonFindingsUpTo(lines, n - 1, previous)
             this == pythonLineFindings(lines[n], n, before.regexp)
         IN  [errors |-> before.errors \o this.errors, regexp |-> this.regexp]

\* no RegExp object made yet
NoRegExp == [lastIndex |-> 0]

\* validatePython(code) after a call that left the RegExp object previous behind
validatePythonRun(code, previous) ==
    LET lines == split(code) IN pythonFindingsUpTo(lines, Len(lines), previous)

\* validatePython(code)
validatePython(code) == validatePythonRun(code, NoRegExp).errors

\* braceDepth after the characters of line were counted, from depth before
depthAfterLine(line, depth) == depth + CountChar(line, "{") - CountChar(line, "}")

\* the missing-semicolon condition of a line, braceDepth being the depth after
\* the line (and after the reset)
missingSemicolon(line, braceDepth) ==
    LET trimmed == trim(line)
    IN  /\ trimmed # <<>>
        /\ braceDepth > 0
        /\ ~startsWith(trimmed, <<"/", "*">>)
        /\ ~endsWith(trimmed, <<"*", "/">>)
        /\ ~endsWith(trimmed, <<"{">>)
        /\ ~endsWith(trimmed, <<"}">>)
        /\ ~endsWith(trimmed, <<";">>)
        /\ includes(trimmed, <<":">>)
        /\ ~startsWith(trimmed, <<"@">>)

RECURSIVE cssScanUpTo(_, _)
\* errors and braceDepth after the loop has handled the first n lines
cssScanUpTo(lines, n) ==
    IF n = 0 THEN [errors |-> <<>>, braceDepth |-> 0]
    ELSE LET before == cssScanUpTo(lines, n - 1)
             line == lines[n]
             counted == depthAfterLine(line, before.braceDepth)
             unmatched ==
                 IF counted < 0
                 THEN <<Finding(n, lastIndexOf(line, <<"}">>) + 1,
                                "Unmatched closing brace", "error")>>
                 ELSE <<>>
             braceDepth == IF counted < 0 THEN 0 ELSE counted
             semicolon ==
                 IF missingSemicolon(line, braceDepth)
                 THEN <<Finding(n, Len(line), "Missing semicolon at end of declaration",
                                "warning")>>
                 ELSE <<>>
         IN  [errors |-> before.errors \o unmatched \o semicolon, braceDepth |-> braceDepth]

\* mutant: the unclosed-brace finding anchored one line past the last line
validateCSS_PastLastLine(code) ==
    LET lines == split(code)
        scan == cssScanUpTo(lines, Len(lines))
    IN  IF scan.braceDepth > 0
        THEN scan.errors \o <<Finding(Len(lines) + 1, 1,
                                      ToString(scan.braceDepth) \o " unclosed brace(s)",
                                      "error")>>
        ELSE scan.errors

\* validateCSS(code)
validateCSS(code) ==
    LET lines == split(code)
        scan == cssScanUpTo(lines, Len(lines))
    IN  IF scan.braceDepth > 0
        THEN scan.errors \o <<Finding(Len(lines), 1,
                                      ToString(scan.braceDepth) \o " unclosed brace(s)",
                                      "error")>>
        ELSE scan.errors

-----------------------------------------------------------------------------
(* The texts handed to the validators: up to MaxPieces pieces in a row *)

RECURSIVE Flatten(_)
Flatten(pieces) == IF pieces = <<>> THEN <<>> ELSE Head(pieces) \o Flatten(Tail(pieces))

TextsOf(pieces) == {Flatten(ps) : ps \in SeqsUpTo(pieces, MaxPieces)}

JsonTexts == TextsOf({<<"{">>, <<"1">>, <<"\n">>})

\* Every answer JSON.parse can give for a text.  A position found in the message
\* is any number: engines that quote the text in the message let the text
\* supply the digits.
JsonAnswers(code) ==
    (IF trim(code) = <<>> THEN {} ELSE {JsonAccepts})
    \cup {JsonThrows("Unexpected token", TRUE, p) : p \in 0..(Len(code) + 1)}
    \cup {JsonThrows("Unexpected end of JSON input", FALSE, 0)}

YamlTexts == TextsOf({<<"a">>, <<":">>, <<"\n">>})

\* every answer the js-yaml delegation can give for a text
YamlAnswers(code) ==
    {YamlImportFails, YamlAccepts, YamlThrows(FALSE, 0, 0)}
    \cup {YamlThrows(TRUE, l, c) : l \in 0..(Len(split(code)) - 1), c \in 0..Len(code)}

PythonQuotePieces == {<<"'">>, <<"\"">>, <<"\\">>, <<"x">>, <<" ">>, <<"\n">>}
PythonBracketPieces ==
    {<<"(">>, <<")">>, <<"[">>, <<"]">>, <<"{">>, <<"}">>, <<"x">>, <<"\n">>}
PythonHeaderPieces ==
    {<<"i", "f">>, <<"d", "e", "f", " ", "f", "(", ")">>, <<":">>, <<"x">>, <<"#">>,
     <<" ">>, <<" ", " ", " ", " ">>, <<"\n">>}
PythonTriplePieces == {TripleDouble, TripleSingle, <<"x">>}
PythonTexts ==
    TextsOf(PythonQuotePieces) \cup TextsOf(PythonBracketPieces)
    \cup TextsOf(PythonHeaderPieces) \cup TextsOf(PythonTriplePieces)

CssPieces == {<<"a">>, <<"{">>, <<"}">>, <<":">>, <<";">>, <<"@">>, <<" ">>, <<"\n">>}
CssTexts == TextsOf(CssPieces)


(***************************************************************************)
(* The validation pass on an editor: ValidationManager and                 *)
(* TreeSitterManager around a Monaco editor.                                *)
(*                                                                         *)
(* validateAndDisplayMarkers is an async function.  It runs without         *)
(* interruption up to an await on the outside world (the tree-sitter        *)
(* runtime initialisation, the read and load of a grammar, the import of   *)
(* js-yaml); there the pass is parked in tasks, and a later step resumes   *)
(* it with the answer of the outside world.                                 *)
(***************************************************************************)

\* ValidationManager.validateAndDisplayMarkers: the ids tree-sitter is tried for
treeSitterLanguages ==
    {"javascript", "javascriptreact", "typescript", "typescriptreact", "tsx",
     "python", "json", "css", "scss", "less", "go", "rust", "java", "cpp", "c",
     "sh", "bash", "shell", "zsh"}

\* the ids with no validator but tree-sitter
treeSitterOnlyLanguages ==
    {"go", "rust", "java", "cpp", "c", "sh", "bash", "shell", "zsh"}

\* the ids left to Monaco's own language services
monacoValidatedLanguages ==
    {"javascript", "typescript", "javascriptreact", "typescriptreact",
     "json", "css", "scss", "less", "html"}

\* the ids the switch over the language has a validator for
switchLanguages == {"json", "yaml", "yml", "python", "css", "scss", "less"}

\* TreeSitterManager.languageMap
languageMap ==
    [l \in treeSitterLanguages |->
        CASE l \in {"javascript", "javascriptreact"} -> "javascript"
          [] l = "typescript" -> "typescript"
          [] l \in {"typescriptreact", "tsx"} -> "tsx"
          [] l \in {"css", "scss", "less"} -> "css"
          [] l \in {"cpp", "c"} -> "cpp"
          [] l \in {"sh", "bash", "shell", "zsh"} -> "bash"
          [] OTHER -> l]

\* the language ids of the editors explored, all of them ids the classifier
\* returns: one or two of every way through the dispatch
EditorLanguages == {"json", "css", "yaml", "python", "go", "plaintext"}

\* the texts typed into the editor
EditorTexts == {<<"{">>, <<"{", "}">>, <<"x", "\n", "i", "f">>}

\* the owners of markers on the model: the two this plugin sets, and Monaco's
\* language services taken together
MarkerOwners == {"syntax-validator", "tree-sitter", "monaco"}

NoMarkers == [o \in MarkerOwners |-> <<>>]

\* ITextModel.getLineCount and getLineContent; getLineContent throws on a line
\* number that is not a line of the model
getLineCount(value) == Len(split(value))
HasLine(value, lineNumber) == lineNumber >= 1 /\ lineNumber <= getLineCount(value)
getLineContent(value, lineNumber) == split(value)[lineNumber]

Max(a, b) == IF a >= b THEN a ELSE b

\* monaco.editor.getModelMarkers({resource}): the markers of every owner
getModelMarkers(ed) ==
    ed.markers["monaco"] \o ed.markers["syntax-validator"] \o ed.markers["tree-sitter"]

\* monaco.editor.setModelMarkers(model, owner, markers); the marker service
\* announces the change to the onDidChangeMarkers listeners later (its emitter
\* is debounced), and announces nothing when an owner without markers is
\* given none
setModelMarkers(ed, owner, markers) ==
    [ed EXCEPT !.markers[owner] = markers,
               !.markerEvent = @ \/ markers # <<>> \/ ed.markers[owner] # <<>>]

\* editor.addContentWidget: the editor keeps its widgets by id
addContentWidget(ed, widget) ==
    [ed EXCEPT !.contentWidgets = {w \in @ : w.id # widget.id} \cup {widget}]

\* oldWidgets.forEach(id => { widget = editor._contentWidgets[id];
\*                            if (widget) editor.removeContentWidget(widget) })
removeWidgets(ed, widgetIds) ==
    [ed EXCEPT !.contentWidgets =
        {w \in @ : \A k \in DOMAIN widgetIds : widgetIds[k] # w.id}]

\* the widget id `${prefix}-${n}-${Date.now()}`
WidgetId(prefix, n, time) == <<prefix, n, time>>

Widget(id, lineNumber, column, message, isError) ==
    [id |-> id, lineNumber |-> lineNumber, column |-> column, message |-> message,
     className |-> IF isError THEN "monaco-inline-error" ELSE "monaco-inline-warning"]

\* ---- what a pass does to the editor and to the two managers.  A world w is
\* ---- the record of the variables a pass reads and writes.

\* the widgets of items, added in order until getLineContent throws on a line
\* the model does not have: [editor, widgetIds, threw]
RECURSIVE AddWidgets(_, _, _, _, _)
AddWidgets(ed, items, prefix, time, ids) ==
    IF items = <<>> THEN [editor |-> ed, widgetIds |-> ids, threw |-> FALSE]
    ELSE LET item == Head(items)
         IN  IF ~HasLine(ed.value, item.lineNumber)
             THEN [editor |-> ed, widgetIds |-> ids, threw |-> TRUE]
             ELSE LET widgetId == WidgetId(prefix, item.n, time)
                      lineContent == getLineContent(ed.value, item.lineNumber)
                      widget == Widget(widgetId, item.lineNumber, Len(lineContent) + 1,
                                       item.message, item.isError)
                  IN  AddWidgets(addContentWidget(ed, widget), Tail(items), prefix, time,
                                 Append(ids, widgetId))

\* markersByLine: the first marker of every line, in the order of the markers
RECURSIVE markersByLine(_, _)
markersByLine(markers, seen) ==
    IF markers = <<>> THEN <<>>
    ELSE IF Head(markers).startLineNumber \in seen
         THEN markersByLine(Tail(markers), seen)
         ELSE <<Head(markers)>>
              \o markersByLine(Tail(markers), seen \cup {Head(markers).startLineNumber})

\* ValidationManager.addInlineErrorsForExistingMarkers: [world, threw]
addInlineErrorsForExistingMarkers(w, time) ==
    LET markers == getModelMarkers(w.editor)
        byLine == markersByLine(markers, {})
        items == [k \in DOMAIN byLine |->
                    [n |-> byLine[k].startLineNumber,
                     lineNumber |-> byLine[k].startLineNumber,
                     message |-> byLine[k].message,
                     isError |-> byLine[k].severity = "Error"]]
        cleared == removeWidgets(w.editor, w.inlineErrorDecorations)
        added == AddWidgets(cleared, items, "monaco-inline", time, <<>>)
    IN  IF ~w.editor.model \/ markers = <<>> THEN [world |-> w, threw |-> FALSE]
        ELSE IF added.threw
             THEN [world |-> [w EXCEPT !.editor = added.editor], threw |-> TRUE]
             ELSE [world |-> [w EXCEPT !.editor = added.editor,
                                       !.inlineErrorDecorations = added.widgetIds],
                   threw |-> FALSE]

\* a pass ends: by returning, or by an exception that leaves
\* validateAndDisplayMarkers (its promise is rejected, and no caller looks)
Completed(w, task, validators, threw) ==
    [w EXCEPT !.pass = [n |-> task.n, language |-> task.language, code |-> task.code,
                        validators |-> validators, threw |-> threw]]

\* a pass is parked at an await
Parked(w, task, at) == [w EXCEPT !.tasks = @ \cup {[task EXCEPT !.at = at]}]

\* the switch over the language id: the lightweight validator of an id
lightweightValidator(language) ==
    CASE language = "json" -> "validateJSON"
      [] language \in {"yaml", "yml"} -> "validateYAML"
      [] language = "python" -> "validatePython"
      [] language \in {"css", "scss", "less"} -> "validateCSS"
      [] OTHER -> "none"

\* the marker of a finding
MarkerOf(error, value) ==
    [severity |-> IF error.severity = "error" THEN "Error" ELSE "Warning",
     startLineNumber |-> error.line,
     startColumn |-> error.column,
     endLineNumber |-> error.line,
     endColumn |-> Max(error.column + 5, Len(getLineContent(value, error.line)) + 1),
     message |-> error.message,
     source |-> "Monaco Prettier Editor"]

\* the end of validateAndDisplayMarkers: the findings become the markers of
\* owner syntax-validator and the inline widgets of the editor
displayErrors(w, task, validators, errors, time) ==
    LET ed == w.editor
        markers == [k \in DOMAIN errors |-> MarkerOf(errors[k], ed.value)]
        marked == setModelMarkers(ed, "syntax-validator", markers)
        cleared == removeWidgets(marked, w.inlineErrorDecorations)
        items == [k \in DOMAIN errors |->
                    [n |-> k - 1, lineNumber |-> errors[k].line,
                     message |-> errors[k].message,
                     isError |-> errors[k].severity = "error"]]
        added == AddWidgets(cleared, items, "validation-inline", time, <<>>)
    IN  IF ~ed.model THEN Completed(w, task, validators, FALSE)
        ELSE IF \E k \in DOMAIN errors : ~HasLine(ed.value, errors[k].line)
             THEN Completed(w, task, validators, TRUE)
             ELSE Completed([w EXCEPT !.editor = added.editor,
                                      !.inlineErrorDecorations = added.widgetIds],
                            task, validators, FALSE)

\* validateAndDisplayMarkers from the Monaco-validated list on: the part behind
\* the tree-sitter attempt.  The worlds it can lead to: one for every answer
\* of JSON.parse where validateJSON is run, one otherwise.
afterTreeSitter(w, task, time) ==
    LET language == task.language
        inline == addInlineErrorsForExistingMarkers(w, time)
        validator == lightweightValidator(language)
    IN  IF language \in monacoValidatedLanguages
        THEN IF ~w.editor.model THEN {Completed(w, task, <<>>, FALSE)}
             ELSE IF inline.threw THEN {Completed(inline.world, task, <<>>, TRUE)}
             ELSE {Completed([inline.world EXCEPT !.listeners = @ + 1], task, <<>>, FALSE)}
        ELSE CASE validator = "validateJSON" ->
                    {displayErrors(w, task, <<validator>>, validateJSON(task.code, parse), time) :
                        parse \in JsonAnswers(task.code)}
               [] validator = "validateYAML" -> {Parked(w, task, "import")}
               [] validator = "validatePython" ->
                    {displayErrors(w, task, <<validator>>, validatePython(task.code), time)}
               [] validator = "validateCSS" ->
                    {displayErrors(w, task, <<validator>>, validateCSS(task.code), time)}
               [] OTHER -> {Completed(w, task, <<>>, FALSE)}

\* the catch around the tree-sitter attempt
treeSitterFailed(w, task, time) ==
    IF task.language \in treeSitterOnlyLanguages
    THEN {Completed(w, task, <<"tree-sitter">>, FALSE)}
    ELSE afterTreeSitter(w, task, time)

\* TreeSitterManager.validateAndDisplayMarkers behind the parse
treeSitterDisplay(w, task, errors, time) ==
    LET ed == w.editor
        markers == [k \in DOMAIN errors |->
                      [severity |-> IF errors[k].severity = "error" THEN "Error" ELSE "Warning",
                       message |-> errors[k].message,
                       startLineNumber |-> errors[k].line,
                       startColumn |-> errors[k].column,
                       endLineNumber |-> errors[k].endLine,
                       endColumn |-> errors[k].endColumn,
                       source |-> "Tree-sitter"]]
        marked == setModelMarkers(ed, "tree-sitter", markers)
        cleared == removeWidgets(marked, w.treeSitterInlineDecorations)
        items == [k \in DOMAIN errors |->
                    [n |-> k - 1, lineNumber |-> errors[k].line,
                     message |-> errors[k].message,
                     isError |-> errors[k].severity = "error"]]
        added == AddWidgets(cleared, items, "tree-sitter-inline", time, <<>>)
    IN  IF ~ed.model THEN {Completed(w, task, <<"tree-sitter">>, FALSE)}
        ELSE IF added.threw
             THEN treeSitterFailed([w EXCEPT !.editor = added.editor], task, time)
             ELSE {Completed([w EXCEPT !.editor = added.editor,
                                       !.treeSitterInlineDecorations = added.widgetIds],
                             task, <<"tree-sitter">>, FALSE)}

\* what a tree-sitter parser can report for a text: nothing (also when
\* parser.parse throws, which parse catches), an ERROR node on the first line,
\* or one on the last line
TreeSitterError(line, column) ==
    [line |-> line, column |-> column, endLine |-> line, endColumn |-> column + 1,
     message |-> "Unexpected ERROR in program", severity |-> "error"]

TsAnswers(code) ==
    {<<>>, <<TreeSitterError(1, 1)>>, <<TreeSitterError(getLineCount(code), 1)>>}

\* parse with a parser at hand: the errors it finds are displayed
parseWith(w, task, time) ==
    UNION {treeSitterDisplay(w, task, errors, time) : errors \in TsAnswers(task.code)}

\* TreeSitterManager.getParser and the rest of parse: no parser when the
\* settings mark it not installed, the cached parser, or a grammar to load
getParser(w, task, time) ==
    LET treeSitterLang == languageMap[task.language]
        ts == w.treeSitter
    IN  IF ts.settings.set /\ ~ts.settings.installed
        THEN treeSitterDisplay(w, task, <<>>, time)
        ELSE IF treeSitterLang \in ts.parsers
             THEN parseWith(w, task, time)
             ELSE {Parked(w, task, "grammar")}

\* ValidationManager.validateAndDisplayMarkers up to its first await
validateAndDisplayMarkers(w, task, cfg, time) ==
    LET w1 == [w EXCEPT !.treeSitter.settings = [set |-> TRUE, installed |-> cfg.installed]]
    IN  IF cfg.enableTreeSitter /\ task.language \in treeSitterLanguages
        THEN IF ~w1.treeSitter.initialized
             THEN {Parked(w1, task, "initialize")}
             ELSE getParser(w1, task, time)
        ELSE afterTreeSitter(w1, task, time)

\* ---- the editor as a state machine

\* what Monaco's own language service can publish for a text
MonacoAnswers(code) ==
    {<<>>,
     <<[severity |-> "Error", startLineNumber |-> getLineCount(code), startColumn |-> 1,
        endLineNumber |-> getLineCount(code), endColumn |-> 2,
        message |-> "Expected", source |-> "monaco"]>>}

World ==
    [editor |-> editor, inlineErrorDecorations |-> inlineErrorDecorations,
     treeSitterInlineDecorations |-> treeSitterInlineDecorations,
     treeSitter |-> treeSitter, listeners |-> listeners, tasks |-> tasks, pass |-> pass]

Becomes(w) ==
    /\ editor' = w.editor
    /\ inlineErrorDecorations' = w.inlineErrorDecorations
    /\ treeSitterInlineDecorations' = w.treeSitterInlineDecorations
    /\ treeSitter' = w.treeSitter
    /\ listeners' = w.listeners
    /\ tasks' = w.tasks
    /\ pass' = w.pass

\* a view that has no file yet: the fields of MonacoPrettierView as constructed,
\* the plugin settings it reads, the content of the file on disk, and its
\* calls in progress
NoView ==
    [at |-> "none", file |-> FALSE, extension |-> "", hasEditor |-> FALSE,
     isLoadingFile |-> FALSE, formatOnTypeDisposable |-> FALSE, timeout |-> FALSE,
     saveRequested |-> FALSE, closed |-> FALSE,
     settings |-> [formatOnSave |-> TRUE, formatOnType |-> FALSE],
     data |-> <<>>,
     formatting |-> [pending |-> FALSE, currentValue |-> <<>>],
     formatRuns |-> 0, unformatted |-> FALSE,
     lastSave |-> [n |-> 0, value |-> <<>>, fallback |-> FALSE, forUnload |-> FALSE]]

NoPass == [n |-> 0, language |-> "", code |-> <<>>, validators |-> <<>>, threw |-> FALSE]

NewEditor(language) ==
    [language |-> language, model |-> TRUE, value |-> <<>>, markers |-> NoMarkers,
     contentWidgets |-> {}, markerEvent |-> FALSE, stale |-> FALSE]

EditorStarts(language, cfg) ==
    /\ settings = cfg
    /\ editor = NewEditor(language)
    /\ inlineErrorDecorations = <<>>
    /\ treeSitterInlineDecorations = <<>>
    /\ treeSitter = [initialized |-> FALSE, parsers |-> {},
                     settings |-> [set |-> FALSE, installed |-> FALSE],
                     inits |-> 0, loads |-> 0]
    /\ listeners = 0
    /\ tasks = {}
    /\ now = 0
    /\ passes = 0
    /\ pass = NoPass
    /\ view = NoView

\* DEFAULT_SETTINGS
DefaultSettings ==
    [lightweightValidation |-> TRUE, enableTreeSitter |-> FALSE, installed |-> FALSE]

Settings ==
    [lightweightValidation : BOOLEAN, enableTreeSitter : BOOLEAN, installed : BOOLEAN]

Init ==
    /\ pc = "idle"
    /\ fn = "none"
    /\ args = <<>>
    /\ ret = Undefined
    /\ trace = NoTrace
    /\ EditorStarts("plaintext", DefaultSettings)

\* a caller invokes detectLanguage(code)
DetectLanguage ==
    /\ pc = "idle"
    /\ \E code \in Codes :
        LET run == detectLanguageRun(code)
        IN  /\ fn' = "detectLanguage"
            /\ args' = [code |-> code]
            /\ ret' = Str(run.value)
            /\ trace' = [detectCalls |-> 1, patternTests |-> run.patternTests,
                         scores |-> run.scores, maxScore |-> run.maxScore]
    /\ pc' = "returned"
    /\ UNCHANGED editorVars

\* a caller invokes getLanguageFromExtension(extension, content)
GetLanguageFromExtension ==
    /\ pc = "idle"
    /\ \E extension \in Hints, content \in Contents :
        LET run == getLanguageFromExtensionRun(extension, content)
        IN  /\ fn' = "getLanguageFromExtension"
            /\ args' = [extension |-> extension, content |-> content]
            /\ ret' = run.value
            /\ trace' = [detectCalls |-> run.detectCalls, patternTests |-> run.patternTests,
                         scores |-> <<>>, maxScore |-> 0]
    /\ pc' = "returned"
    /\ UNCHANGED editorVars

\* FenceEditContext.getLanguage(langKey) on a fence with the given content
GetLanguage ==
    /\ pc = "idle"
    /\ \E langKey \in FenceKeys, autoDetectLanguage \in BOOLEAN,
          content \in {c.code : c \in Contents \ {Absent}} :
        LET run == getLanguageRun(langKey, autoDetectLanguage, content)
        IN  /\ fn' = "getLanguage"
            /\ args' = [langKey |-> langKey, autoDetectLanguage |-> autoDetectLanguage,
                        content |-> content]
            /\ ret' = run.value
            /\ trace' = [detectCalls |-> run.detectCalls, patternTests |-> run.patternTests,
                         scores |-> <<>>, maxScore |-> 0]
    /\ pc' = "returned"
    /\ UNCHANGED editorVars

\* the caller takes the value; the detector keeps nothing from the call
Return ==
    /\ pc = "returned"
    /\ pc' = "idle"
    /\ fn' = "none"
    /\ args' = <<>>
    /\ ret' = Undefined
    /\ trace' = NoTrace
    /\ UNCHANGED editorVars

Next == DetectLanguage \/ GetLanguageFromExtension \/ GetLanguage \/ Return

Spec == Init /\ [][Next]_vars

-----------------------------------------------------------------------------
(* The validators as a state machine: one call at a time *)

ValidateJSON ==
    /\ pc = "idle"
    /\ \E code \in JsonTexts : \E parse \in JsonAnswers(code) :
        /\ fn' = "validateJSON"
        /\ args' = [code |-> code, answer |-> parse]
        /\ ret' = Returns(validateJSON(code, parse))
    /\ pc' = "returned"
    /\ trace' = NoTrace
    /\ UNCHANGED editorVars

ValidateYAML ==
    /\ pc = "idle"
    /\ \E code \in YamlTexts : \E answer \in YamlAnswers(code) :
        /\ fn' = "validateYAML"
        /\ args' = [code |-> code, answer |-> answer]
        /\ ret' = validateYAML(code, answer)
    /\ pc' = "returned"
    /\ trace' = NoTrace
    /\ UNCHANGED editorVars

ValidatePython ==
    /\ pc = "idle"
    /\ \E code \in PythonTexts :
        /\ fn' = "validatePython"
        /\ args' = [code |-> code]
        /\ ret' = Returns(validatePython(code))
    /\ pc' = "returned"
    /\ trace' = NoTrace
    /\ UNCHANGED editorVars

ValidateCSS ==
    /\ pc = "idle"
    /\ \E code \in CssTexts :
        /\ fn' = "validateCSS"
        /\ args' = [code |-> code]
        /\ ret' = Returns(validateCSS(code))
    /\ pc' = "returned"
    /\ trace' = NoTrace
    /\ UNCHANGED editorVars

NextValidators == ValidateJSON \/ ValidateYAML \/ ValidatePython \/ ValidateCSS \/ Return

SpecValidators == Init /\ [][NextValidators]_vars

-----------------------------------------------------------------------------
(* The validators called again and again: what a call leaves behind *)

\* the texts of the repeated calls
RepeatPythonTexts ==
    {<<"d", "e", "f", " ", "f", "(", ")", " ", "x">>,
     <<"d", "e", "f", " ", "f", "(", ")", ":">>,
     <<"x", "\n", "d", "e", "f", " ", "f", "(", ")", " ", "x">>,
     <<"d", "e", "f", " ", "f", "(", ")", " ", "x", "\n", "d", "e", "f", " ", "f", "(", ")", "x">>,
     <<"i", "f", " ", "(">>,
     <<"x">>}

RepeatCssTexts ==
    {<<"{">>, <<"}">>, <<"a", "{", "b", ":", "c">>, <<"{", "\n", "}">>, <<"}", " ", "{">>}

NoCall == [fn |-> "none", args |-> <<>>, ret |-> Undefined]

\* no call was made yet.  trace keeps one earlier call and its result, whether
\* a call was made since, and the RegExp object the last validatePython left.
InitRepeat ==
    /\ pc = "idle"
    /\ fn = "none"
    /\ args = <<>>
    /\ ret = Undefined
    /\ trace = [earlier |-> NoCall, between |-> FALSE, regexp |-> NoRegExp]
    /\ EditorStarts("plaintext", DefaultSettings)

CallPython ==
    /\ pc = "idle"
    /\ \E code \in RepeatPythonTexts :
        LET run == validatePythonRun(code, trace.regexp)
        IN  /\ fn' = "validatePython"
            /\ args' = [code |-> code]
            /\ ret' = Returns(run.errors)
            /\ trace' = [trace EXCEPT !.regexp = run.regexp]
    /\ pc' = "returned"
    /\ UNCHANGED editorVars

CallCSS ==
    /\ pc = "idle"
    /\ \E code \in RepeatCssTexts :
        /\ fn' = "validateCSS"
        /\ args' = [code |-> code]
        /\ ret' = Returns(validateCSS(code))
    /\ pc' = "returned"
    /\ UNCHANGED <<trace, editorVars>>

\* the caller takes the result, and the observer keeps it as the earlier call
Remember ==
    /\ pc = "returned"
    /\ pc' = "idle"
    /\ trace' = [trace EXCEPT !.earlier = [fn |-> fn, args |-> args, ret |-> ret],
                              !.between = FALSE]
    /\ UNCHANGED <<fn, args, ret, editorVars>>

\* the caller takes the result
TakeResult ==
    /\ pc = "returned"
    /\ pc' = "idle"
    /\ trace' = [trace EXCEPT !.between = TRUE]
    /\ UNCHANGED <<fn, args, ret, editorVars>>

NextRepeat == CallPython \/ CallCSS \/ Remember \/ TakeResult

SpecRepeat == InitRepeat /\ [][NextRepeat]_vars
\* a file is open in an editor of some language, under some settings
InitEditor ==
    /\ pc = "idle"
    /\ fn = "none"
    /\ args = <<>>
    /\ ret = Undefined
    /\ trace = NoTrace
    /\ \E language \in EditorLanguages, cfg \in Settings : EditorStarts(language, cfg)

\* onDidChangeModelContent: the text changes and runValidation starts a pass,
\* whether or not an earlier pass is still parked
ChangeContent ==
    /\ editor.model
    /\ passes < MaxPasses
    /\ passes' = passes + 1
    /\ \E code \in EditorTexts \ {editor.value} :
        LET w == [World EXCEPT !.editor.value = code, !.editor.stale = TRUE]
            task == [n |-> passes + 1, language |-> editor.language, code |-> code,
                     at |-> "start"]
        IN  IF settings.lightweightValidation
            THEN \E w2 \in validateAndDisplayMarkers(w, task, settings, now) : Becomes(w2)
            ELSE Becomes(w)
    /\ UNCHANGED <<view, pc, fn, args, ret, trace, settings, now>>

\* TreeSitterManager.initialize settles: Parser.init has been run (inits counts
\* its runs), the runtime is ready and the pass goes on to its parser, or
\* initialize throws and the pass falls to the catch
ResumeInitialize ==
    /\ \E task \in tasks : \E ok \in BOOLEAN :
        /\ task.at = "initialize"
        /\ LET w == [World EXCEPT !.tasks = @ \ {task}]
           IN  \E w2 \in (IF ok THEN getParser([w EXCEPT !.treeSitter.initialized = TRUE,
                                                         !.treeSitter.inits = @ + 1],
                                               task, now)
                           ELSE treeSitterFailed(w, task, now)) :
                    Becomes(w2)
    /\ UNCHANGED <<view, pc, fn, args, ret, trace, settings, now, passes>>

\* the grammar of getParser settles: Language.load has been run (loads counts
\* its runs), the parser is cached and parses the code, or the load fails and
\* parse returns no errors
ResumeGrammar ==
    /\ \E task \in tasks : \E ok \in BOOLEAN :
        /\ task.at = "grammar"
        /\ LET w == [World EXCEPT !.tasks = @ \ {task}]
               loaded == [w EXCEPT !.treeSitter.parsers = @ \cup {languageMap[task.language]},
                                   !.treeSitter.loads = @ + 1]
           IN  \E w2 \in (IF ok THEN parseWith(loaded, task, now)
                           ELSE treeSitterDisplay(w, task, <<>>, now)) :
                    Becomes(w2)
    /\ UNCHANGED <<view, pc, fn, args, ret, trace, settings, now, passes>>

\* the import of js-yaml in validateYAML settles, and the pass runs to its end.
\* The passes wait on one module and on nothing else, and the promise jobs of
\* one settlement run in the order they were queued: the oldest pass goes first.
ResumeImport ==
    /\ \E task \in tasks : \E answer \in YamlAnswers(task.code) :
        /\ task.at = "import"
        /\ \A other \in tasks : other.at = "import" => task.n <= other.n
        /\ LET w == [World EXCEPT !.tasks = @ \ {task}]
               result == validateYAML(task.code, answer)
           IN  IF result.threw
               THEN Becomes(Completed(w, task, <<"validateYAML">>, TRUE))
               ELSE Becomes(displayErrors(w, task, <<"validateYAML">>, result.value, now))
    /\ UNCHANGED <<view, pc, fn, args, ret, trace, settings, now, passes>>

\* Monaco's own language service has looked at the changed text and publishes
\* its markers for it
MonacoPublishes ==
    /\ editor.model
    /\ editor.stale
    /\ editor.language \in monacoValidatedLanguages
    /\ \E markers \in MonacoAnswers(editor.value) :
        editor' = [setModelMarkers(editor, "monaco", markers) EXCEPT !.stale = FALSE]
    /\ UNCHANGED <<view, pc, fn, args, ret, trace, settings, inlineErrorDecorations,
                   treeSitterInlineDecorations, treeSitter, listeners, tasks, now,
                   passes, pass>>

\* the marker service announces a change: every live listener runs
\* addInlineErrorsForExistingMarkers; the runs are of one instant and of one
\* marker list, so the second and later ones rebuild what the first one built
MarkersChanged ==
    /\ editor.markerEvent
    /\ LET w == [World EXCEPT !.editor.markerEvent = FALSE]
       IN  IF listeners > 0
           THEN Becomes(addInlineErrorsForExistingMarkers(w, now).world)
           ELSE Becomes(w)
    /\ UNCHANGED <<view, pc, fn, args, ret, trace, settings, now, passes>>

\* Date.now() moves on.  The clock is read for widget ids only, so an instant
\* in which no widget of the editor was made is not told from the one before.
Tick ==
    /\ now < MaxClock
    /\ \E w \in editor.contentWidgets : w.id[3] = now
    /\ now' = now + 1
    /\ UNCHANGED <<view, pc, fn, args, ret, trace, settings, editor, inlineErrorDecorations,
                   treeSitterInlineDecorations, treeSitter, listeners, tasks, passes, pass>>

\* onUnloadFile: editor.dispose().  The model goes, with its markers, its
\* widgets and the listeners that model.onWillDispose releases.
DisposeEditor ==
    /\ editor.model
    /\ editor' = [editor EXCEPT !.model = FALSE, !.markers = NoMarkers,
                                !.contentWidgets = {}, !.markerEvent = FALSE,
                                !.stale = FALSE]
    /\ listeners' = 0
    /\ UNCHANGED <<view, pc, fn, args, ret, trace, settings, inlineErrorDecorations,
                   treeSitterInlineDecorations, treeSitter, tasks, now, passes, pass>>

NextEditor ==
    \/ ChangeContent
    \/ ResumeInitialize
    \/ ResumeGrammar
    \/ ResumeImport
    \/ MonacoPublishes
    \/ MarkersChanged
    \/ Tick
    \/ DisposeEditor

SpecEditor == InitEditor /\ [][NextEditor]_vars

-----------------------------------------------------------------------------
(* The view of a file: MonacoPrettierView between onLoadFile and             *)
(* onUnloadFile.  TextFileView, its superclass, is the caller: it loads the *)
(* file and hands it over with setViewData, saves with getViewData when a   *)
(* requested save falls due and when the file is unloaded, and calls        *)
(* onClose before onUnloadFile.  The validation passes a content change     *)
(* starts are the subject of SpecEditor and are left out here.              *)

\* the extensions of the files opened: one with a Prettier parser, one without
ViewExtensions == {"json", "py"}

ViewSettings == [formatOnSave : BOOLEAN, formatOnType : BOOLEAN]

\* getPrettierParser: whether parserMap has the extension
getPrettierParser(ext) ==
    ext \in {"ts", "tsx", "js", "jsx", "json", "css", "scss", "less", "html", "md",
             "yaml", "yml"}

\* setupFormatOnType: the listener that restarts the one-second timer on
\* every content change.  No code of the plugin calls it.
setupFormatOnType(v) ==
    IF ~v.hasEditor THEN v ELSE [v EXCEPT !.formatOnTypeDisposable = TRUE]

\* the content-change listeners of the editor: the one of onLoadFile requests
\* a save unless the file is being loaded (and starts a validation pass); the
\* one of setupFormatOnType, if registered, restarts its timer
onDidChangeModelContent(v) ==
    [v EXCEPT !.saveRequested = @ \/ ~v.isLoadingFile,
              !.timeout = @ \/ v.formatOnTypeDisposable]

\* getViewData: the text of the editor, or the empty string when the editor
\* or its model is missing
getViewData(v, ed) ==
    IF v.hasEditor /\ ed.model THEN [value |-> ed.value, fallback |-> FALSE]
    ELSE [value |-> <<>>, fallback |-> TRUE]

\* editor.dispose()
dispose(ed) ==
    [ed EXCEPT !.model = FALSE, !.markers = NoMarkers, !.contentWidgets = {},
               !.markerEvent = FALSE, !.stale = FALSE]

\* mutant: onClose disposes the editor
onClose_Disposes(v, ed) ==
    [view |-> [v EXCEPT !.closed = TRUE, !.hasEditor = FALSE], editor |-> dispose(ed)]

\* onClose: super.onClose(), the editor is left alone
onClose(v, ed) == [view |-> [v EXCEPT !.closed = TRUE], editor |-> ed]

\* TextFileView saves: the file gets what getViewData returns
saved(v, ed, forUnload) ==
    LET got == getViewData(v, ed)
    IN  [v EXCEPT !.data = got.value,
                  !.saveRequested = FALSE,
                  !.lastSave = [n |-> 1, value |-> got.value, fallback |-> got.fallback,
                                forUnload |-> forUnload]]

viewOnly ==
    <<pc, fn, args, ret, trace, settings, inlineErrorDecorations,
      treeSitterInlineDecorations, treeSitter, listeners, tasks, now, passes, pass>>

\* a view is made for a file of some extension and content, under some settings
InitView ==
    /\ pc = "idle"
    /\ fn = "none"
    /\ args = <<>>
    /\ ret = Undefined
    /\ trace = NoTrace
    /\ settings = DefaultSettings
    /\ editor = [NewEditor("plaintext") EXCEPT !.model = FALSE]
    /\ inlineErrorDecorations = <<>>
    /\ treeSitterInlineDecorations = <<>>
    /\ treeSitter = [initialized |-> FALSE, parsers |-> {},
                     settings |-> [set |-> FALSE, installed |-> FALSE],
                     inits |-> 0, loads |-> 0]
    /\ listeners = 0
    /\ tasks = {}
    /\ now = 0
    /\ passes = 0
    /\ pass = NoPass
    /\ \E ext \in ViewExtensions, cfg \in ViewSettings, data \in EditorTexts :
         view = [NoView EXCEPT !.extension = ext, !.settings = cfg, !.data = data]

\* onLoadFile up to its first await
OnLoadFileStart ==
    /\ view.at = "none"
    /\ ~view.closed
    /\ view' = [view EXCEPT !.at = "loading", !.isLoadingFile = TRUE]
    /\ UNCHANGED <<editor, viewOnly>>

\* onLoadFile from the creation of the editor on: super.onLoadFile reads the
\* file and hands it to setViewData, whose setValue runs the content-change
\* listener while isLoadingFile is set
OnLoadFileCreate ==
    /\ view.at = "loading"
    /\ editor' = [NewEditor(extensionMap[view.extension]) EXCEPT !.value = view.data]
    /\ view' = [onDidChangeModelContent([view EXCEPT !.hasEditor = TRUE, !.file = TRUE])
                    EXCEPT !.isLoadingFile = FALSE, !.at = "open"]
    /\ UNCHANGED viewOnly

\* the user changes the text
Type ==
    /\ view.at = "open"
    /\ ~view.closed
    /\ view.hasEditor
    /\ \E code \in EditorTexts \ {editor.value} :
         editor' = [editor EXCEPT !.value = code]
    /\ view' = onDidChangeModelContent([view EXCEPT !.unformatted = TRUE])
    /\ UNCHANGED viewOnly

\* a requested save falls due: TextFileView writes what getViewData returns
Save ==
    /\ view.saveRequested
    /\ view.file
    /\ view' = saved(view, editor, FALSE)
    /\ UNCHANGED <<editor, viewOnly>>

\* the command "Format current file with Prettier": formatDocument up to the
\* await of prettier.format
FormatCommand ==
    /\ view.at = "open"
    /\ ~view.closed
    /\ view.formatRuns < MaxFormats
    /\ ~view.formatting.pending
    /\ view' = IF ~view.hasEditor \/ ~view.file THEN view
               ELSE IF ~getPrettierParser(view.extension)
               THEN [view EXCEPT !.formatRuns = @ + 1, !.unformatted = FALSE]
               ELSE [view EXCEPT !.formatRuns = @ + 1, !.unformatted = FALSE,
                                 !.formatting = [pending |-> TRUE,
                                                 currentValue |-> editor.value]]
    /\ UNCHANGED <<editor, viewOnly>>

\* prettier.format settles: it throws, or it returns a text, which replaces
\* the text of the editor when it differs from the one that was formatted; a
\* view without editor by then throws into the catch
ResumeFormat ==
    /\ view.formatting.pending
    /\ \E threw \in BOOLEAN, formatted \in EditorTexts :
         LET v == [view EXCEPT !.formatting = [pending |-> FALSE, currentValue |-> <<>>]]
         IN  IF threw \/ formatted = view.formatting.currentValue \/ ~view.hasEditor
             THEN view' = v /\ editor' = editor
             ELSE /\ editor' = [editor EXCEPT !.value = formatted]
                  /\ view' = onDidChangeModelContent(v)
    /\ UNCHANGED viewOnly

\* onClose, called before onUnloadFile
OnClose ==
    /\ view.at = "open"
    /\ ~view.closed
    /\ LET closed == onClose(view, editor)
       IN  view' = closed.view /\ editor' = closed.editor
    /\ UNCHANGED viewOnly

\* onUnloadFile up to the await of super.onUnloadFile
OnUnloadFileStart ==
    /\ view.at = "open"
    /\ view' = [view EXCEPT !.isLoadingFile = TRUE, !.formatOnTypeDisposable = FALSE,
                            !.at = "unloading"]
    /\ UNCHANGED <<editor, viewOnly>>

\* super.onUnloadFile saves the file through getViewData
SuperOnUnloadFile ==
    /\ view.at = "unloading"
    /\ view' = [saved(view, editor, TRUE) EXCEPT !.at = "saved"]
    /\ UNCHANGED <<editor, viewOnly>>

\* onUnloadFile behind the await: the editor is disposed and forgotten, and
\* the view has no file any more
OnUnloadFileFinish ==
    /\ view.at = "saved"
    /\ editor' = IF view.hasEditor THEN dispose(editor) ELSE editor
    /\ view' = [view EXCEPT !.hasEditor = FALSE, !.file = FALSE, !.at = "none",
                            !.unformatted = FALSE]
    /\ UNCHANGED viewOnly

NextView ==
    \/ OnLoadFileStart
    \/ OnLoadFileCreate
    \/ Type
    \/ Save
    \/ FormatCommand
    \/ ResumeFormat
    \/ OnClose
    \/ OnUnloadFileStart
    \/ SuperOnUnloadFile
    \/ OnUnloadFileFinish

SpecView == InitView /\ [][NextView]_vars

\* what the plugin and Obsidian do by themselves happens in the end; what the
\* user does (type, run a command, close) may never happen
SpecViewFair ==
    /\ SpecView
    /\ WF_vars(OnLoadFileCreate)
    /\ WF_vars(Save)
    /\ WF_vars(ResumeFormat)
    /\ WF_vars(SuperOnUnloadFile)
    /\ WF_vars(OnUnloadFileFinish)

-----------------------------------------------------------------------------
(* Claims about the classifier *)

\* the key looked up for a hint, and whether the table has it
KeyOf(extension) == Join(toLowerCase(extension))
IsTableKey(extension) == KeyOf(extension) \in DOMAIN extensionMap

ReturnedFrom(name) == pc = "returned" /\ fn = name

\* C1: a call of getLanguageFromExtension whose hint, lower-cased, is a key of the
\* extension table returns the id the table maps it to, whatever the content
\* argument is, and does not call detectLanguage.
C1_MappedExtensionIgnoresContent ==
    (ReturnedFrom("getLanguageFromExtension") /\ IsTableKey(args.extension))
        => /\ ret = Str(extensionMap[KeyOf(args.extension)])
           /\ trace.detectCalls = 0
           /\ trace.patternTests = 0

\* C1 witness: the hint "PY" with a text in which a JavaScript pattern occurs
C1_Witness ==
    /\ ReturnedFrom("getLanguageFromExtension")
    /\ args.extension = <<"P", "Y">>
    /\ args.content.supplied
    /\ args.content.code.hits = SingleHit(3)
    /\ ret = Str("python")

\* C2: a call of getLanguageFromExtension whose hint is empty or not a key of the
\* extension table returns detectLanguage(text) when a text is supplied and
\* "plaintext" when none is.
C2_UnmappedExtensionFallsBack ==
    (ReturnedFrom("getLanguageFromExtension") /\ ~IsTableKey(args.extension))
        => ret = (IF args.content.supplied
                  THEN Str(detectLanguage(args.content.code))
                  ELSE Str(Plaintext))

\* whether every character of the text is white space
OnlyWhiteSpace(chars) == \A k \in DOMAIN chars : chars[k] \in WhiteSpace

\* C4: detectLanguage on an empty or white-space-only text returns "plaintext"
\* and tests no signature pattern.
C4_BlankTextIsPlaintext ==
    (ReturnedFrom("detectLanguage") /\ OnlyWhiteSpace(args.code.chars))
        => /\ ret = Str(Plaintext)
           /\ trace.patternTests = 0

\* C4 witness: the text " \n"
C4_Witness ==
    /\ ReturnedFrom("detectLanguage")
    /\ args.code.chars = <<" ", "\n">>
    /\ ret = Str(Plaintext)

\* the patterns of signature i that match the text at least once
Matching(i, code) ==
    {j \in DOMAIN patterns[i].patterns : Occurrences(i, j, code) >= 1}

RECURSIVE SumOver(_, _, _)
\* the sum of weight x (number of matching patterns) over the signatures in sigs
SumOver(sigs, id, code) ==
    IF sigs = {} THEN 0
    ELSE LET i == CHOOSE i \in sigs : TRUE
         IN  patterns[i].weight * Cardinality(Matching(i, code))
             + SumOver(sigs \ {i}, id, code)

\* the total of a canonical id: over all signatures declared with that id
Total(id, code) ==
    SumOver({i \in SignatureIds : patterns[i].monacoLanguage = id}, id, code)

\* the greatest total over all canonical ids
MaxTotal(code) ==
    LET totals == {Total(id, code) : id \in CanonicalIds}
    IN  CHOOSE m \in totals : \A n \in totals : n <= m

\* C5: detectLanguage returns "plaintext" when the greatest total is below 2, and
\* a canonical id other than "plaintext" when it is at least 2.
C5_ConfidenceFloor ==
    ReturnedFrom("detectLanguage")
        => /\ MaxTotal(args.code) < 2 => ret = Str(Plaintext)
           /\ MaxTotal(args.code) >= 2
                => ret.type = "string" /\ ret.value \in CanonicalIds \ {Plaintext}

\* C5 witness: a text whose greatest total is exactly 2
C5_Witness ==
    /\ ReturnedFrom("detectLanguage")
    /\ MaxTotal(args.code) = 2
    /\ ret # Str(Plaintext)

\* C6: for a text that is not blank, the Map of scores holds for each canonical
\* id its total (weight x number of its patterns matching at least once, summed
\* over the signatures of the id; ids with total 0 are not in the Map), maxScore
\* is the greatest total, and an id returned has the greatest total.
C6_TotalsAndMaximum ==
    (ReturnedFrom("detectLanguage") /\ ~OnlyWhiteSpace(args.code.chars))
        => /\ \A k \in DOMAIN trace.scores :
                trace.scores[k].value = Total(trace.scores[k].key, args.code)
           /\ \A id \in CanonicalIds :
                Total(id, args.code) > 0
                    => \E k \in DOMAIN trace.scores : trace.scores[k].key = id
           /\ trace.maxScore = MaxTotal(args.code)
           /\ ret # Str(Plaintext) => Total(ret.value, args.code) = MaxTotal(args.code)

\* C6 witness: patterns of both JavaScript signatures occur, each twice
C6_Witness ==
    /\ ReturnedFrom("detectLanguage")
    /\ args.code.times = 2
    /\ args.code.hits[3] = 1 /\ args.code.hits[4] = 1
    /\ trace.maxScore = 4
    /\ ret = Str("javascript")

\* the range of the extension table
ExtensionIds == {extensionMap[k] : k \in DOMAIN extensionMap}

\* the fixed id vocabulary
Vocabulary == ExtensionIds \cup CanonicalIds \cup {Plaintext}

\* C7: getLanguageFromExtension and detectLanguage return, for every hint and
\* every text, a string of the id vocabulary (or "plaintext").
C7_ResultInVocabulary ==
    (pc = "returned" /\ fn \in {"getLanguageFromExtension", "detectLanguage"})
        => ret.type = "string" /\ ret.value \in Vocabulary


-----------------------------------------------------------------------------
(* The dispatch of a validation pass *)

\* the validator the specification names for a language id
SpecifiedValidator(language) ==
    CASE language = "json" -> <<"validateJSON">>
      [] language = "yaml" -> <<"validateYAML">>
      [] language = "python" -> <<"validatePython">>
      [] language \in {"css", "scss", "less"} -> <<"validateCSS">>
      [] OTHER -> <<>>

\* the lists of findings the specified validator can return for a text
SpecifiedFindings(language, code) ==
    CASE language = "json" -> {validateJSON(code, parse) : parse \in JsonAnswers(code)}
      [] language = "yaml" ->
            {validateYAML(code, answer).value : answer \in YamlAnswers(code)}
      [] language = "python" -> {validatePython(code)}
      [] language \in {"css", "scss", "less"} -> {validateCSS(code)}
      [] OTHER -> {<<>>}

\* the only pass of the editor has ended by returning, tree-sitter is disabled,
\* and the text is still the one the pass was given
PassEndedAlone ==
    /\ pass.n = 1
    /\ passes = 1
    /\ tasks = {}
    /\ ~pass.threw
    /\ editor.model
    /\ editor.value = pass.code
    /\ ~settings.enableTreeSitter

\* C3: with tree-sitter disabled, a validation pass runs exactly the validator
\* of its language id (validateJSON for json, validateYAML for yaml,
\* validatePython for python, validateCSS for css, scss and less, none for any
\* other id), and the markers it sets are the findings of that validator on
\* the text.
C3_DispatchByExactId ==
    PassEndedAlone =>
        /\ pass.validators = SpecifiedValidator(pass.language)
        /\ \E findings \in SpecifiedFindings(pass.language, pass.code) :
            editor.markers["syntax-validator"] =
                [k \in DOMAIN findings |-> MarkerOf(findings[k], pass.code)]

-----------------------------------------------------------------------------
(* Claims about the validators *)

\* C8: validateJSON returns no finding when JSON.parse accepts the text, and
\* exactly one finding, an error, when it throws; when the message of the error
\* carries no position that finding is at line 1, column 1.
C8_JsonOneErrorPerFailure ==
    ReturnedFrom("validateJSON")
        => /\ ~ret.threw
           /\ args.answer.ok => ret.value = <<>>
           /\ ~args.answer.ok
                => /\ Len(ret.value) = 1
                   /\ ret.value[1].severity = "error"
                   /\ ~args.answer.hasPosition
                        => ret.value[1].line = 1 /\ ret.value[1].column = 1

\* C8 witness: a rejected text whose error carries no position
C8_Witness ==
    /\ ReturnedFrom("validateJSON")
    /\ args.code = <<"{", "\n", "1">>
    /\ ~args.answer.ok /\ ~args.answer.hasPosition
    /\ Len(ret.value) = 1

\* C9: validateYAML never throws; it returns exactly one finding, an error, when
\* the import of js-yaml is rejected or the parser throws, and none when the
\* parser accepts the text.
C9_YamlFailureIsOneFinding ==
    ReturnedFrom("validateYAML")
        => /\ ~ret.threw
           /\ args.answer.kind = "accepted" => ret.value = <<>>
           /\ args.answer.kind \in {"importRejected", "thrown"}
                => Len(ret.value) = 1 /\ ret.value[1].severity = "error"

\* C9 witness: the import of js-yaml was rejected
C9_Witness ==
    /\ ReturnedFrom("validateYAML")
    /\ args.answer.kind = "importRejected"
    /\ ~ret.threw /\ Len(ret.value) = 1

\* the number of line feeds in chars
LineFeeds(chars) == Cardinality({k \in DOMAIN chars : chars[k] = "\n"})

\* the length of 1-based line n of chars: the characters between the line feeds
\* around it
LineLength(chars, n) ==
    LET feeds == {k \in DOMAIN chars : chars[k] = "\n"}
        starts == {0} \cup feeds
        ends == feeds \cup {Len(chars) + 1}
        from == CHOOSE s \in starts : Cardinality({f \in feeds : f <= s}) = n - 1
        to == CHOOSE e \in ends : e > from /\ \A f \in feeds : ~(from < f /\ f < e)
    IN  to - from - 1

\* a finding lies in the text: its line is one of the lines, its column is in
\* that line or just behind it
InText(finding, chars) ==
    /\ finding.line >= 1
    /\ finding.line <= LineFeeds(chars) + 1
    /\ finding.column >= 1
    /\ finding.column <= LineLength(chars, finding.line) + 1

\* C10: every finding of validateJSON, validatePython and validateCSS has
\* line >= 1 and column >= 1, names a line of the text, and its column is at
\* most the length of that line plus one.
C10_FindingsLieInText ==
    (pc = "returned" /\ fn \in {"validateJSON", "validatePython", "validateCSS"})
        => \A k \in DOMAIN ret.value : InText(ret.value[k], args.code)

\* C10 witness: the missing colon of "x\nif", reported in the last column of line 2
C10_Witness ==
    /\ ReturnedFrom("validatePython")
    /\ args.code = <<"x", "\n", "i", "f">>
    /\ \E k \in DOMAIN ret.value : ret.value[k].line = 2 /\ ret.value[k].column = 2

-----------------------------------------------------------------------------
(* Properties of the validators, call by call *)

\* the call that has just returned has the function and arguments of the
\* earlier call
SameCallAgain ==
    /\ pc = "returned"
    /\ trace.earlier.fn = fn
    /\ trace.earlier.args = args

\* C11: a validator called again with the same text returns the same list of
\* findings as before, whatever calls were made in between.
C11_SameCallSameFindings ==
    SameCallAgain => ret = trace.earlier.ret

\* validatePython is called again on a line with a def without colon, after a
\* call on another text, and reports the def again
C11_Witness ==
    /\ SameCallAgain
    /\ fn = "validatePython"
    /\ trace.between
    /\ \E k \in DOMAIN ret.value : ret.value[k].message = "Function definition missing colon"

\* the brace depth after the first k characters of a text when every '}' read
\* at depth zero is set aside and leaves the depth at zero
RECURSIVE DepthByCharacter(_, _)
DepthByCharacter(chars, k) ==
    IF k = 0 THEN 0
    ELSE LET before == DepthByCharacter(chars, k - 1)
         IN  CASE chars[k] = "{" -> before + 1
               [] chars[k] = "}" -> IF before = 0 THEN 0 ELSE before - 1
               [] OTHER -> before

\* character k is a '}' read at depth zero
UnmatchedAt(chars, k) == chars[k] = "}" /\ DepthByCharacter(chars, k - 1) = 0

\* the 1-based line of character k
LineOf(chars, k) == 1 + Cardinality({j \in 1..(k - 1) : chars[j] = "\n"})

Messages(findings, line) ==
    {findings[k].message : k \in {j \in DOMAIN findings : findings[j].line = line}}

\* C12: validateCSS reports "Unmatched closing brace" on the line of every '}'
\* that is read at depth zero, and counts the braces behind it from zero, also
\* on the same line: the unclosed braces it reports at the end are those left
\* open after every such '}' was set aside.
C12_UnmatchedBraceResets ==
    (pc = "returned" /\ fn = "validateCSS") =>
        LET code == args.code
            residual == DepthByCharacter(code, Len(code))
            all == UNION {Messages(ret.value, l) : l \in 1..(LineFeeds(code) + 1)}
        IN  /\ \A k \in DOMAIN code :
                UnmatchedAt(code, k) =>
                    "Unmatched closing brace" \in Messages(ret.value, LineOf(code, k))
            /\ \A n \in 1..Len(code) :
                (ToString(n) \o " unclosed brace(s)" \in all) <=> (n = residual)

\* the "N unclosed brace(s)" messages
UnclosedMessages == {ToString(n) \o " unclosed brace(s)" : n \in 1..(MaxPieces + 1)}

\* the brace depth left after the first n lines: line by line, a depth below
\* zero at the end of a line being put back to zero
RECURSIVE ResidualDepth(_, _)
ResidualDepth(lines, n) ==
    IF n = 0 THEN 0
    ELSE Max(0, ResidualDepth(lines, n - 1)
                + CountChar(lines[n], "{") - CountChar(lines[n], "}"))

\* C13: validateCSS ends its list with one error "N unclosed brace(s)" at the
\* last line of the text when the depth N left after the last line is
\* positive, and reports no unclosed brace otherwise; when no closing brace
\* was reported unmatched, N is the number of '{' minus the number of '}' of
\* the text.
C13_UnclosedBracesAtEnd ==
    (pc = "returned" /\ fn = "validateCSS") =>
        LET code == args.code
            lines == split(code)
            findings == ret.value
            N == ResidualDepth(lines, Len(lines))
            unclosed == {k \in DOMAIN findings : findings[k].message \in UnclosedMessages}
            unmatched == {k \in DOMAIN findings :
                            findings[k].message = "Unmatched closing brace"}
        IN  /\ N > 0 =>
                /\ unclosed = {Len(findings)}
                /\ findings[Len(findings)] =
                       Finding(Len(lines), 1, ToString(N) \o " unclosed brace(s)", "error")
            /\ N = 0 => unclosed = {}
            /\ unmatched = {} => N = Max(0, CountChar(code, "{") - CountChar(code, "}"))

\* two braces are left open in a text of two lines
C13_Witness ==
    /\ pc = "returned" /\ fn = "validateCSS"
    /\ Len(split(args.code)) = 2
    /\ ret.value # <<>>
    /\ ret.value[Len(ret.value)] = Finding(2, 1, "2 unclosed brace(s)", "error")

\* the findings of a list that are about line l, in the order of the list
OnLine(findings, l) ==
    LET about(f) == f.line = l IN SelectSeq(findings, about)

\* a line the Python validator scans: not blank and not a comment
Scanned(line) == trim(line) # <<>> /\ trim(line)[1] # "#"

\* the line begins, after its leading white space, with a control keyword as
\* a whole word
BeginsWithKeyword(line) ==
    LET body == trimStart(line)
    IN  \E kw \in ControlKeywords :
            /\ Len(body) >= Len(kw)
            /\ SubSeq(body, 1, Len(kw)) = kw
            /\ (Len(body) > Len(kw) => body[Len(kw) + 1] \notin WordChars)

\* the last character of the trimmed line is not a colon
LacksColon(line) == LET t == trim(line) IN t = <<>> \/ t[Len(t)] # ":"

\* the line can fail no check but the missing colon: no quote, no bracket,
\* no indentation, and nothing after a ")"
OnlyColonAtStake(line) ==
    /\ \A k \in DOMAIN line :
         /\ line[k] \notin {"'", "\"", "[", "]", "{", "}"}
         /\ line[k] = ")" => k = Len(line)
    /\ CountChar(line, "(") = CountChar(line, ")")
    /\ line[1] \notin WhiteSpace

MissingColon(line, l) == Finding(l, Len(line), "Missing colon at end of statement", "error")

QuoteMessages ==
    {"Unclosed triple-quoted string", "Unclosed string (single quote)",
     "Unclosed string (double quote)"}

Odd(n) == n % 2 = 1

\* the unclosed-string messages a line is owed: the triple-quote one alone
\* when the triple quotes are odd in number, and otherwise one for each of
\* the single and the double quotes that are odd in number
QuoteMessagesOwed(line) ==
    IF Odd(TripleCountFrom(line, 0)) THEN {"Unclosed triple-quoted string"}
    ELSE {m \in {"Unclosed string (single quote)"} : Odd(UnescapedCount(line, "'"))}
         \cup {m \in {"Unclosed string (double quote)"} : Odd(UnescapedCount(line, "\""))}

\* C15: on every scanned line validatePython reports each quote category
\* whose count is odd, the triple quotes first and then alone; a line whose
\* three counts are even gets no unclosed-string finding.
C15_EveryOddQuoteCategory ==
    (pc = "returned" /\ fn = "validatePython") =>
        LET lines == split(args.code)
        IN  \A l \in DOMAIN lines :
                Scanned(lines[l]) =>
                    LET here == OnLine(ret.value, l)
                    IN  {here[k].message : k \in DOMAIN here} \cap QuoteMessages
                            = QuoteMessagesOwed(lines[l])

\* the kinds of bracket: the opening and the closing character, the message
\* for more opening than closing ones and the message for the reverse
BracketKinds ==
    {[open |-> "(", close |-> ")", unclosed |-> "Unclosed parenthesis",
      unmatched |-> "Unmatched closing parenthesis"],
     [open |-> "[", close |-> "]", unclosed |-> "Unclosed bracket",
      unmatched |-> "Unmatched closing bracket"],
     [open |-> "{", close |-> "}", unclosed |-> "Unclosed brace",
      unmatched |-> "Unmatched closing brace"]}

BracketMessages == UNION {{kind.unclosed, kind.unmatched} : kind \in BracketKinds}

\* the bracket findings of a list, as line l = 1 would carry them
BracketFindingsOf(findings, l) ==
    LET bracket(f) == f.message \in BracketMessages
        here == SelectSeq(OnLine(findings, l), bracket)
    IN  [k \in DOMAIN here |-> [here[k] EXCEPT !.line = 1]]

\* C16: validatePython checks brackets line by line and kind by kind: a
\* scanned line carries a finding of a kind exactly when its opening and
\* closing characters of that kind differ in number, one finding a kind at
\* most, and the bracket findings of a line are those of the line validated
\* alone.
C16_BracketsPerLinePerKind ==
    (pc = "returned" /\ fn = "validatePython") =>
        LET lines == split(args.code)
        IN  \A l \in DOMAIN lines :
                LET line == lines[l]
                    here == OnLine(ret.value, l)
                IN  /\ Scanned(line) =>
                        \A kind \in BracketKinds :
                            LET opened == CountChar(line, kind.open)
                                closed == CountChar(line, kind.close)
                                of(m) == {k \in DOMAIN here : here[k].message = m}
                            IN  /\ Cardinality(of(kind.unclosed)) =
                                       (IF opened > closed THEN 1 ELSE 0)
                                /\ Cardinality(of(kind.unmatched)) =
                                       (IF opened < closed THEN 1 ELSE 0)
                    /\ BracketFindingsOf(ret.value, l)
                           = BracketFindingsOf(validatePython(line), 1)

\* "(" on the first line and ")" on the second: each line has its finding
C16_Witness ==
    /\ pc = "returned" /\ fn = "validatePython"
    /\ args.code = <<"(", "\n", ")">>
    /\ Len(ret.value) = 2
    /\ ret.value[1].message = "Unclosed parenthesis" /\ ret.value[1].line = 1
    /\ ret.value[2].message = "Unmatched closing parenthesis" /\ ret.value[2].line = 2

\* the messages of the style heuristics
StyleMessages ==
    {"Indentation should be a multiple of 4 spaces",
     "Missing semicolon at end of declaration"}

\* the messages of the structural checks of the Python and CSS validators
StructuralMessages ==
    QuoteMessages \cup BracketMessages \cup UnclosedMessages
    \cup {"Missing colon at end of statement", "Function definition missing colon",
          "Unmatched closing brace"}

\* C17: the severity of a finding is fixed by the check it comes from: parse
\* failures of JSON and YAML and the structural checks are errors, the two
\* style heuristics are warnings.
C17_SeverityPerCheck ==
    (/\ pc = "returned"
     /\ fn \in {"validateJSON", "validateYAML", "validatePython", "validateCSS"}
     /\ ~ret.threw) =>
        \A k \in DOMAIN ret.value :
            LET f == ret.value[k]
            IN  IF fn \in {"validateJSON", "validateYAML"}
                THEN f.severity = "error"
                ELSE \/ f.message \in StyleMessages /\ f.severity = "warning"
                     \/ f.message \in StructuralMessages /\ f.severity = "error"

\* a result of validatePython that holds a warning and an error
C17_Witness ==
    /\ pc = "returned" /\ fn = "validatePython"
    /\ \E j, k \in DOMAIN ret.value :
         /\ ret.value[j].message = "Indentation should be a multiple of 4 spaces"
         /\ ret.value[j].severity = "warning"
         /\ ret.value[k].message = "Missing colon at end of statement"
         /\ ret.value[k].severity = "error"

\* the languages of the editor that have a lightweight validator and are on
\* the tree-sitter list
FallbackLanguages ==
    {language \in EditorLanguages \cap treeSitterLanguages :
        lightweightValidator(language) # "none"}

\* C18: with tree-sitter enabled and the parser of the language marked not
\* installed, a pass for a language that has a lightweight validator ends
\* having run that validator.
C18_FallsBackToLightweight ==
    (/\ pass.n > 0
     /\ settings.enableTreeSitter
     /\ ~settings.installed
     /\ pass.language \in FallbackLanguages) =>
        pass.validators = <<lightweightValidator(pass.language)>>

\* the ids the classifier can return: the values of the extension table, the
\* canonical ids of the signatures, and the default
ClassifierIds ==
    {extensionMap[hint] : hint \in DOMAIN extensionMap} \cup CanonicalIds \cup {Plaintext}

\* the ids on which the dispatch of a validation pass selects a validator
\* under settings cfg: the tree-sitter list is consulted only when tree-sitter
\* is enabled
DispatchIds(cfg) ==
    (IF cfg.enableTreeSitter THEN treeSitterLanguages ELSE {})
    \cup monacoValidatedLanguages \cup switchLanguages

\* C19: every language id on which the validation dispatch selects a
\* validator (tree-sitter list, Monaco list, switch) is an id the classifier
\* can return.
C19_SameIdVocabulary == DispatchIds(settings) \subseteq ClassifierIds

\* what the inline widgets of an editor show: line and message
Shown(ed) == {<<w.lineNumber, w.message>> : w \in ed.contentWidgets}

\* what the pass p has displayed as markers on editor ed: the findings of
\* tree-sitter or of the lightweight validator it ran, the markers on the
\* model for a language left to Monaco, nothing for a language without
\* validator
PassMarkers(p, ed) ==
    IF p.validators = <<"tree-sitter">> THEN ed.markers["tree-sitter"]
    ELSE IF p.validators # <<>> THEN ed.markers["syntax-validator"]
    ELSE IF p.language \in monacoValidatedLanguages
         THEN markersByLine(getModelMarkers(ed), {})
         ELSE <<>>

\* C20: when a validation pass ends by returning, the inline widgets of the
\* editor are exactly those of the findings (or markers) of that pass; after
\* a pass without finding the editor shows no inline widget.
C20_WidgetsRebuiltEveryPass ==
    [][(pass' # pass /\ ~pass'.threw /\ editor'.model) =>
            LET markers == PassMarkers(pass', editor')
            IN  Shown(editor') =
                    {<<markers[k].startLineNumber, markers[k].message>> : k \in DOMAIN markers}
      ]_vars

-----------------------------------------------------------------------------
(* The view of a file *)

\* a step in which TextFileView saves the file
SaveStep ==
    \/ view.saveRequested /\ ~view'.saveRequested
    \/ view.at = "unloading" /\ view'.at = "saved"

\* a step in which formatDocument is called
FormatStep == view'.formatRuns = view.formatRuns + 1

\* C21: with formatOnType, a content change is followed in the end by a run
\* of formatDocument (or the file is unloaded); with formatOnSave, a save of
\* the file runs formatDocument.
C21_FormatOnTypeAndOnSave ==
    /\ (view.settings.formatOnType /\ view.unformatted) ~> ~view.unformatted
    /\ [][(view.settings.formatOnSave /\ SaveStep) => FormatStep]_vars

\* C27: the save that super.onUnloadFile makes finds a live editor and writes
\* the editor's text, not the empty-string fallback; the editor is disposed
\* only behind that save, and onClose leaves it alone.
C27_UnloadSavesEditorContent ==
    [][/\ (view.at = "unloading" /\ view'.at = "saved") =>
            /\ editor.model
            /\ ~view'.lastSave.fallback
            /\ view'.lastSave.value = editor.value
            /\ view'.data = editor.value
       /\ (view.hasEditor /\ editor.model /\ ~editor'.model) => view.at = "saved"
       /\ (~view.closed /\ view'.closed) =>
            /\ editor' = editor
            /\ view'.hasEditor = view.hasEditor
      ]_vars

\* a closed view has been unloaded and its text, not empty, has been saved
C27_Witness ==
    /\ view.at = "saved"
    /\ view.closed
    /\ view.lastSave.forUnload
    /\ ~view.lastSave.fallback
    /\ view.lastSave.value # <<>>
    /\ view.data = editor.value

-----------------------------------------------------------------------------
(* The classifier and the validators, continued *)

\* the place in the signature table of the first signature of a canonical id
FirstSignature(id) ==
    CHOOSE i \in SignatureIds :
        /\ patterns[i].monacoLanguage = id
        /\ \A j \in SignatureIds : patterns[j].monacoLanguage = id => i <= j

\* the canonical ids that share the greatest total
Tied(code) == {id \in CanonicalIds : Total(id, code) = MaxTotal(code)}

\* C22: when several canonical ids share the greatest total (of 2 or more),
\* detectLanguage returns the one whose first signature comes first in the
\* signature table, also when only a later signature of the id matches.
C22_TieGoesToFirstDeclared ==
    (ReturnedFrom("detectLanguage") /\ \E id \in CanonicalIds : Total(id, args.code) >= 2) =>
        LET best == Total(ret.value, args.code)
        IN  \A id \in CanonicalIds :
                \/ Total(id, args.code) < best
                \/ /\ Total(id, args.code) = best
                   /\ FirstSignature(ret.value) <= FirstSignature(id)

\* only the second typescript signature matches, and python ties with it
C22_Witness ==
    /\ ReturnedFrom("detectLanguage")
    /\ args.code.hits[1] = 0 /\ args.code.hits[2] = 1 /\ args.code.hits[5] = 1
    /\ Tied(args.code) = {"typescript", "python"}
    /\ ret = Str("typescript")

\* C23: when JSON.parse reports an offset p within the text, the one finding
\* of validateJSON is on line 1 + (line feeds before p), at column 1 + (the
\* characters between the last line feed before p, or the start, and p).
C23_JsonOffsetToLineColumn ==
    (/\ ReturnedFrom("validateJSON")
     /\ ~args.answer.ok
     /\ args.answer.hasPosition
     /\ args.answer.position <= Len(args.code)) =>
        LET p == args.answer.position
            feeds == {k \in 1..p : args.code[k] = "\n"}
            last == IF feeds = {} THEN 0 ELSE CHOOSE k \in feeds : \A f \in feeds : f <= k
        IN  /\ Len(ret.value) = 1
            /\ ret.value[1].line = 1 + Cardinality(feeds)
            /\ ret.value[1].column = 1 + (p - last)
            /\ ret.value[1].severity = "error"

\* the offset 2 of "{\n1": line 2, column 1, though the text goes on
C23_Witness ==
    /\ ReturnedFrom("validateJSON")
    /\ args.code = <<"{", "\n", "1">>
    /\ ~args.answer.ok
    /\ args.answer.hasPosition /\ args.answer.position = 2
    /\ ret.value[1].line = 2 /\ ret.value[1].column = 1

\* C24: when js-yaml reports the position (l, c), counted from 0, the finding
\* of validateYAML is at (l + 1, c + 1), also for l = 0 or c = 0; when the
\* error carries no position the finding is at (1, 1).
C24_YamlMarkPlusOne ==
    (ReturnedFrom("validateYAML") /\ args.answer.kind # "accepted") =>
        /\ ~ret.threw
        /\ Len(ret.value) = 1
        /\ args.answer.hasMark =>
            /\ ret.value[1].line = args.answer.line + 1
            /\ ret.value[1].column = args.answer.column + 1
        /\ ~args.answer.hasMark =>
            /\ ret.value[1].line = 1
            /\ ret.value[1].column = 1

\* a mark on the first line (l = 0), second column (c = 1)
C24_Witness ==
    /\ ReturnedFrom("validateYAML")
    /\ args.answer.kind = "thrown"
    /\ args.answer.hasMark /\ args.answer.line = 0 /\ args.answer.column = 1
    /\ ret.value[1].line = 1 /\ ret.value[1].column = 2

\* the 1-based places of the last quote of a kind on a line: the last ' or ",
\* or the three characters of the last triple quote
LastQuote(line, message) ==
    IF message = "Unclosed string (single quote)" THEN {lastIndexOf(line, <<"'">>) + 1}
    ELSE IF message = "Unclosed string (double quote)" THEN {lastIndexOf(line, <<"\"">>) + 1}
    ELSE LET starts == {at \in 0..Len(line) :
                            OccursAt(line, TripleDouble, at) \/ OccursAt(line, TripleSingle, at)}
             last == CHOOSE at \in starts : \A other \in starts : other <= at
         IN  IF starts = {} THEN {} ELSE (last + 1)..(last + 3)

\* C25: every unclosed-string finding of validatePython, of each of the three
\* kinds, has its column on the last quote of that kind on its line.
C25_ColumnOfLastQuote ==
    (ReturnedFrom("validatePython")) =>
        LET lines == split(args.code)
        IN  \A k \in DOMAIN ret.value :
                ret.value[k].message \in QuoteMessages =>
                    ret.value[k].column
                        \in LastQuote(lines[ret.value[k].line], ret.value[k].message)

\* the characters of a text before its line l, and up to the end of line l
UpToLine(code, l) ==
    LET lines == split(code)
        RECURSIVE upTo(_)
        upTo(n) == IF n = 0 THEN 0 ELSE upTo(n - 1) + Len(lines[n]) + (IF n > 1 THEN 1 ELSE 0)
    IN  upTo(l)

\* a line that is a comment, or an at-rule
IsComment(trimmed) == startsWith(trimmed, <<"/", "*">>) \/ endsWith(trimmed, <<"*", "/">>)
IsAtRule(trimmed) == startsWith(trimmed, <<"@">>)

\* a line owed the missing-semicolon warning, at brace depth depth
OwedSemicolon(line, depth) ==
    LET trimmed == trim(line)
    IN  /\ trimmed # <<>>
        /\ depth > 0
        /\ \E k \in DOMAIN trimmed : trimmed[k] = ":"
        /\ trimmed[Len(trimmed)] \notin {"{", "}", ";"}
        /\ ~IsComment(trimmed)
        /\ ~IsAtRule(trimmed)

\* C26: validateCSS reports "Missing semicolon at end of declaration" on a line
\* exactly when the line, trimmed, is not empty, ends inside a rule block (the
\* brace depth at its end is positive), holds a ':', does not end with '{',
\* '}' or ';', and is no comment and no at-rule.
C26_MissingSemicolonIff ==
    ReturnedFrom("validateCSS") =>
        LET lines == split(args.code)
        IN  \A l \in DOMAIN lines :
                ("Missing semicolon at end of declaration" \in Messages(ret.value, l))
                    <=> OwedSemicolon(lines[l],
                                      DepthByCharacter(args.code, UpToLine(args.code, l)))


-----------------------------------------------------------------------------
(* The validation passes, continued *)

\* the markers this plugin has set on the model
OwnMarkers == editor.markers["syntax-validator"] \o editor.markers["tree-sitter"]

\* C28: once every validation pass that was started has completed, what the
\* plugin displays was computed from the text now in the editor: the pass that
\* wrote the display last is the pass of that text, and every marker lies on
\* a line the text has.
C28_DisplayIsOfLatestText ==
    (tasks = {} /\ editor.model /\ pass.n > 0) =>
        /\ (pass.validators # <<>> /\ ~pass.threw) => pass.code = editor.value
        /\ \A k \in DOMAIN OwnMarkers : HasLine(editor.value, OwnMarkers[k].startLineNumber)

\* C29: on a model of a Monaco-validated language at most one
\* onDidChangeMarkers listener of validateAndDisplayMarkers is live, however
\* many passes have run.
C29_OneMarkerListener ==
    (editor.model /\ editor.language \in monacoValidatedLanguages) => listeners <= 1

\* C30: Parser.init is run at most once and the grammar of a language is
\* loaded at most once (TreeSitterManager.dispose is never called), also when
\* passes are started before the first initialisation or load has settled.
C30_InitAndLoadOnce ==
    /\ treeSitter.inits <= 1
    /\ treeSitter.loads <= 1

=============================================================================
